---- MODULE Spec2Model ----
(***************************************************************************)
(* Model of the watch-and-announce engine of                               *)
(* nixe/cogs/a21_youtube_wuwa_live_announce.py (YouTubeWuWaLiveAnnouncer): *)
(* the poll loop's announce gates, the destination-history de-dup, the     *)
(* in-flight guard, the send queue with throttle and cooldown, and the     *)
(* per-target timeout / pass deadline of one poll pass.                    *)
(*                                                                         *)
(* Steps are cut at the await points of the coroutines: asyncio runs the   *)
(* code between two awaits without interleaving, so every action below is  *)
(* one such stretch of code.                                               *)
(***************************************************************************)
EXTENDS Integers, Sequences, FiniteSets, TLC

VARIABLES
    loops,        \* the cog instances loaded in this process (2 after a double load)
    fs_ok,        \* whether a write of STATE_PATH succeeds at the moment
    hist_ok,      \* whether channel.history can be read at the moment
    disk,         \* the JSON document at STATE_PATH
    history,      \* the newest messages of the announce channel, oldest first
    inflight,     \* _INFLIGHT_VIDS (module level, shared by all cog instances)
    state,        \* self.state of every cog instance
    cache,        \* self._announce_vid_cache
    cache_ready,  \* self._announce_vid_cache_ready
    sweep_done,   \* self._dedupe_sweep_done
    pc,           \* where the poll loop task of a cog instance is
    cur,          \* the detection result the loop is handling
    queue,        \* self._send_queue
    fut,          \* the futures of the send requests
    wpc,          \* where the send worker task is
    witem,        \* the request the send worker took from the queue
    gap,          \* remaining time of the worker's throttle sleep
    cool_left,    \* self._cf_cooldown_until - now, floored at 0
    since_last,   \* now - self._send_last_ts, capped at the throttle
    since_done,   \* time since the last channel.send returned or raised, capped
    sent,         \* channel.send calls that returned a message, per instance and video
    prev_sent,    \* video ids this bot account posted in an earlier process lifetime
    loaded,       \* announced_vids as read from STATE_PATH by __init__
    tgt,          \* poll pass timing: the state of each target's detection task
    elapsed,      \* poll pass timing: time since the pass started
    poll_s,       \* poll pass timing: POLL_SECONDS
    ppc,          \* poll pass timing: phase of the pass
    http,         \* detection fan-out: where each detection task is in its HTTP requests
    inst,         \* instances of the bot account: where each is in its post and cleanup
    oldest,       \* instances of the bot account: who posted first (0: nobody yet)
    m_in,         \* watchlist merge: the list of target dicts given to _merge_targets
    m_res,        \* watchlist merge: self.state["resolved"]
    m_once,       \* watchlist merge: what _merge_targets([], L) returned
    m_twice,      \* watchlist merge: what _merge_targets(L, L) returned
    arg,          \* function checks: the arguments the function is called with
    ret,          \* function checks: what the calls returned
    lost          \* storage failures: ids in memory the file lacked when writes worked again

engineVars == <<loops, fs_ok, hist_ok, disk,
                history, inflight, state, cache, cache_ready, sweep_done, pc, cur,
                sent, prev_sent, loaded>>
sendVars == <<queue, fut, wpc, witem, gap, cool_left, since_last, since_done>>
httpVars == <<http>>
instVars == <<inst, oldest>>
mergeVars == <<m_in, m_res, m_once, m_twice>>
auxVars == <<arg, ret, lost>>
passVars == <<tgt, elapsed, poll_s, ppc, httpVars, instVars, mergeVars, auxVars>>
vars == <<engineVars, sendVars, passVars>>

(***************************************************************************)
(* Universe                                                                *)
(***************************************************************************)
Loops == {1, 2}
Vids == {"v1", "v2"}
NoVid == "none"
Me == "me"            \* messages of this bot account (bot.user.id)
Someone == "someone"  \* messages of any other author
NoResult == [none |-> TRUE]

Max(a, b) == IF a >= b THEN a ELSE b
Min(a, b) == IF a <= b THEN a ELSE b

\* dataclass Target
Target(name, query, handle, channel_id, url) ==
    [name |-> name, query |-> query, handle |-> handle,
     channel_id |-> channel_id, url |-> url]

\* The identities under which a watched channel reaches the loop: a handle
\* target before and after _resolve_channel filled channel_id and url.
T_handle == Target("Some", "@some", "@some", "", "")
T_resolved == Target("Some", "@some", "@some", "UC1", "https://www.youtube.com/channel/UC1")
TargetsSeen == {T_handle, T_resolved}

\* Target.base_url (handles of the model start with "@", urls have no trailing "/")
base_url(t) ==
    IF t.url # "" THEN t.url
    ELSE IF t.handle # "" THEN "https://www.youtube.com/" \o t.handle
    ELSE IF t.channel_id # "" THEN "https://www.youtube.com/channel/" \o t.channel_id
    ELSE ""

\* loop: keys = the non-empty ones of (channel_id, base_url(), url, handle, query, name),
\* [query] when there is none
AliasKeys(t) ==
    LET cands == {t.channel_id, base_url(t), t.url, t.handle, t.query, t.name} \ {""}
    IN  IF cands = {} THEN {t.query} ELSE cands

\* A detection result (t, vid, title, start_ts, creator_name) of _check_live.
\* start_ts: "none" (absent), "fresh" (now), "preboot" (before boot_time -
\* BOOT_GRACE_SECONDS), "stale" (after boot, older than the max age).
\* creator_name is "" when _check_live found no usable display name.
Results ==
    { [t |-> t, vid |-> v, start_ts |-> s, creator_name |-> n] :
        t \in TargetsSeen, v \in Vids, s \in {"none", "fresh", "preboot", "stale"},
        n \in {"", "name"} }

EmptyMap == [k \in {} |-> NoVid]
EmptyState == [announced |-> EmptyMap, announced_vids |-> {}]

(***************************************************************************)
(* Persisted state and the announce channel                                *)
(***************************************************************************)
Range(f) == {f[k] : k \in DOMAIN f}

\* the map is left as it is
AlignKeys_None(ann_map, keys, vid) == ann_map

\* loop: for k in keys: ann_map[k] = vid
AlignKeys(ann_map, keys, vid) ==
    [k \in (DOMAIN ann_map) \cup keys |-> IF k \in keys THEN vid ELSE ann_map[k]]

\* the keys are written, the video id is not
Record_KeysOnly(st, keys, vid) ==
    [announced |-> AlignKeys(st.announced, keys, vid),
     announced_vids |-> st.announced_vids]

\* loop: ann_map[k] = vid for every key, ann_vids[str(vid)] = now
\* (the timestamp is never read back and is left out)
Record(st, keys, vid) ==
    [announced |-> AlignKeys(st.announced, keys, vid),
     announced_vids |-> st.announced_vids \cup {vid}]

\* a write that never reaches the file
WriteJson_Never(old, data, ok) == old

\* _write_json_best_effort: a failing write is swallowed and leaves the file
WriteJson(old, data, ok) == IF ok THEN data ELSE old

\* a start that ignores the file
LoadState_Ignored(d) == EmptyState

\* __init__: self.state = _read_json_any(STATE_PATH) or {}, then the setdefaults
LoadState(d) == [announced |-> d.announced, announced_vids |-> d.announced_vids]

Msg(author, vid) == [author |-> author, vid |-> vid]

\* Scan windows, scaled down: _DEDUP_HISTORY_LIMIT is 60 and the warm-up
\* limit NIXE_YT_WUWA_ANNOUNCE_HISTORY_SCAN_LIMIT defaults to 500.
DedupLimit == 1
WarmLimit == 2
\* the channel keeps what the widest scan (the startup sweep) can see
HistKept == Max(WarmLimit, 2 * DedupLimit)

\* channel.history(limit=n): the n newest messages
Newest(h, n) == SubSeq(h, Max(1, Len(h) - n + 1), Len(h))

\* channel.send / a post of another client: the message becomes the newest one
Posted(h, m) == Newest(Append(h, m), HistKept)

\* _warm_announce_video_cache: the video ids of this bot's messages among the
\* WarmLimit newest
WarmVids(h) ==
    LET w == Newest(h, WarmLimit)
    IN  {w[i].vid : i \in {j \in DOMAIN w : w[j].author = Me}}

\* a scan that finds nothing
ScanHas_Nothing(h, vid) == FALSE

\* _announce_channel_has_video, the scan after the cache: a message of this bot
\* with this video id among the DedupLimit newest
ScanHas(h, vid) ==
    LET w == Newest(h, DedupLimit)
    IN  \E i \in DOMAIN w : w[i].author = Me /\ w[i].vid = vid

\* the messages of h at the positions in keep, in order
Keep(h, keep) ==
    LET F[i \in 0..Len(h)] ==
            IF i = 0 THEN <<>>
            ELSE IF i \in keep THEN Append(F[i - 1], h[i]) ELSE F[i - 1]
    IN  F[Len(h)]

\* positions of this bot's messages for vid among the n newest of h
Matches(h, n, vid) ==
    {i \in DOMAIN h : i > Len(h) - n /\ h[i].author = Me /\ h[i].vid = vid}

\* _cleanup_duplicate_announcements: among the DedupLimit newest, keep the oldest
\* message of this bot for vid and delete its other ones (the cap of 6 matches
\* is above what the scaled window holds)
CleanedUp(h, vid) ==
    LET m == Matches(h, DedupLimit, vid)
    IN  IF Cardinality(m) <= 1 THEN h
        ELSE Keep(h, {i \in DOMAIN h : i \notin m \/ \A j \in m : i <= j})

\* a sweep that buckets the messages of every author
Swept_AnyAuthor(h) ==
    Keep(h, {i \in DOMAIN h : \A j \in DOMAIN h : h[j].vid = h[i].vid => i <= j})

\* _dedupe_sweep_recent: the same for every video id, over 2 * DedupLimit
\* messages; messages of other authors and messages without a video id are
\* skipped
Swept(h) ==
    Keep(h, {i \in DOMAIN h :
                \/ h[i].author # Me
                \/ h[i].vid = NoVid
                \/ i <= Len(h) - 2 * DedupLimit
                \/ \A j \in Matches(h, 2 * DedupLimit, h[i].vid) : i <= j})

(***************************************************************************)
(* Configuration                                                           *)
(***************************************************************************)
\* Times are in ticks. DISCORD_SEND_THROTTLE_SECONDS (2.0 s) is one tick; the
\* floor of the cooldown, max(60, ...), and its default (900 s) keep their order.
DISCORD_SEND_THROTTLE_SECONDS == 1
MIN_COOLDOWN_SECONDS == 1
DISCORD_CLOUDFLARE_COOLDOWN_SECONDS == 2
\* max(1, DISCORD_ANNOUNCE_QUEUE_MAXSIZE), 200 by default
DISCORD_ANNOUNCE_QUEUE_MAXSIZE == 2
\* The configuration in which both suppress branches of the loop are live
\* (the defaults, off and 0, handle every start time like a fresh one).
ONLY_NEW_AFTER_BOOT == TRUE
ANNOUNCE_MAX_AGE_MINUTES == 10

\* what the delivery counter counts up to
MaxSent == 2

ReqIds == {1, 2, 3}
FutDone == {"msg", "nomsg", "exc"}

cfgVars == <<loops>>
envVars == <<fs_ok, hist_ok>>
ghostVars == <<prev_sent, loaded>>
cogVars == <<state, cache, cache_ready, sweep_done, pc, cur>>

(***************************************************************************)
(* Delivery pipeline: _send_queued, _send_worker, _engage_cloudflare_cooldown *)
(***************************************************************************)
\* a cooldown that is never seen
CooldownActive_Never(c) == FALSE

\* if self._cf_cooldown_until and now < float(self._cf_cooldown_until)
CooldownActive(c) == cool_left[c] > 0

\* a queue that is never full
SendQueuedAccepts_NoLimit(c) == ~CooldownActive(c)

\* _send_queued puts the request on the queue: no cooldown, queue not full
SendQueuedAccepts(c) ==
    /\ ~CooldownActive(c)
    /\ Len(queue[c]) < Max(1, DISCORD_ANNOUNCE_QUEUE_MAXSIZE)

\* an engagement that leaves the deadline as it is
Engaged_Unmoved(cl) == cl

\* _engage_cloudflare_cooldown: the deadline, as time left from now
Engaged(cl) == Max(cl, Max(MIN_COOLDOWN_SECONDS, DISCORD_CLOUDFLARE_COOLDOWN_SECONDS))

\* _send_worker: gap = throttle - (now - self._send_last_ts)
ThrottleGap(c) ==
    IF DISCORD_SEND_THROTTLE_SECONDS > 0
    THEN DISCORD_SEND_THROTTLE_SECONDS - since_last[c] ELSE 0

\* _send_worker, from self._send_queue.get() to the first await after it
WorkerGet(c) ==
    /\ wpc[c] = "get"
    /\ queue[c] # <<>>
    /\ LET item == Head(queue[c]) IN
        /\ queue' = [queue EXCEPT ![c] = Tail(@)]
        /\ IF CooldownActive(c)
           THEN /\ fut' = [fut EXCEPT ![item.id] = IF @ = "pending" THEN "nomsg" ELSE @]
                /\ UNCHANGED <<wpc, witem, gap>>
           ELSE /\ witem' = [witem EXCEPT ![c] = item]
                /\ gap' = [gap EXCEPT ![c] = Max(0, ThrottleGap(c))]
                /\ wpc' = [wpc EXCEPT ![c] = IF ThrottleGap(c) > 0 THEN "sleep" ELSE "sending"]
                /\ UNCHANGED fut
    /\ UNCHANGED <<cool_left, since_last, since_done, sent, history, inflight, disk>>
    /\ UNCHANGED <<cfgVars, envVars, ghostVars, cogVars, passVars>>

\* _send_worker: channel.send returned the message
SendOk(c) ==
    /\ wpc[c] = "sending"
    /\ history' = Posted(history, Msg(Me, witem[c].vid))
    /\ since_last' = [since_last EXCEPT ![c] = 0]
    /\ since_done' = [since_done EXCEPT ![c] = 0]
    /\ fut' = [fut EXCEPT ![witem[c].id] = IF @ = "pending" THEN "msg" ELSE @]
    /\ sent' = [sent EXCEPT ![c][witem[c].vid] = Min(MaxSent, @ + 1)]
    /\ wpc' = [wpc EXCEPT ![c] = "get"]
    /\ witem' = [witem EXCEPT ![c] = NoResult]
    /\ UNCHANGED <<queue, gap, cool_left, inflight, disk>>
    /\ UNCHANGED <<cfgVars, envVars, ghostVars, cogVars, passVars>>

\* _send_worker: channel.send raised; cf: _is_cloudflare_1015(e)
SendFail(c, cf) ==
    /\ wpc[c] = "sending"
    /\ cool_left' = [cool_left EXCEPT ![c] = IF cf THEN Engaged(@) ELSE @]
    /\ queue' = [queue EXCEPT ![c] = IF cf THEN <<>> ELSE @]
    /\ fut' = [fut EXCEPT ![witem[c].id] = IF @ = "pending" THEN "exc" ELSE @]
    /\ since_done' = [since_done EXCEPT ![c] = 0]
    /\ wpc' = [wpc EXCEPT ![c] = "get"]
    /\ witem' = [witem EXCEPT ![c] = NoResult]
    /\ UNCHANGED <<gap, since_last, sent, history, inflight, disk>>
    /\ UNCHANGED <<cfgVars, envVars, ghostVars, cogVars, passVars>>

\* One tick of the event loop's clock. A worker whose asyncio.sleep(gap) is
\* over with this tick goes on to channel.send.
Tick ==
    /\ cool_left' = [c \in Loops |-> Max(0, cool_left[c] - 1)]
    /\ since_last' = [c \in Loops |-> Min(DISCORD_SEND_THROTTLE_SECONDS, since_last[c] + 1)]
    /\ since_done' = [c \in Loops |-> Min(DISCORD_SEND_THROTTLE_SECONDS, since_done[c] + 1)]
    /\ gap' = [c \in Loops |-> Max(0, gap[c] - 1)]
    /\ wpc' = [c \in Loops |-> IF wpc[c] = "sleep" /\ gap'[c] = 0 THEN "sending" ELSE wpc[c]]
    /\ UNCHANGED <<queue, fut, witem, sent, history, inflight, disk>>
    /\ UNCHANGED <<cfgVars, envVars, ghostVars, cogVars, passVars>>

(***************************************************************************)
(* Poll loop: before_loop, loop, _post, cog_unload                         *)
(***************************************************************************)
pipeVars == <<queue, fut, wpc, witem, gap, cool_left, since_last, since_done, sent>>

\* the suppress branches without the one for the max age
Suppressed_PrebootOnly(r) ==
    ONLY_NEW_AFTER_BOOT /\ r.start_ts = "preboot"

\* loop: the two "suppress" branches (started before boot, older than the max age)
Suppressed(r) ==
    \/ ONLY_NEW_AFTER_BOOT /\ r.start_ts = "preboot"
    \/ ANNOUNCE_MAX_AGE_MINUTES > 0 /\ r.start_ts # "none" /\ r.start_ts = "stale"

\* what the rest of the handler reads of a result (start_ts is only logged
\* after the suppress branches)
Handled(r) == [t |-> r.t, vid |-> r.vid, creator_name |-> r.creator_name]

\* the hard de-dupe without its look-ups in the state
AlreadyAnnounced_InflightOnly(c, vid) ==
    vid \in inflight

\* loop: the hard de-dupe by video id
AlreadyAnnounced(c, vid) ==
    \/ vid \in state[c].announced_vids
    \/ vid \in inflight
    \/ vid \in Range(state[c].announced)

\* the keys and the video id are set in memory only
RecordAndWrite_MemoryOnly(c, r) ==
    /\ state' = [state EXCEPT ![c] = Record(@, AliasKeys(r.t), r.vid)]
    /\ disk' = disk

\* a guard that never finds the id
InFlight_Never(vid) == FALSE

\* loop, under _ANNOUNCE_LOCK: "if vid_s in _INFLIGHT_VIDS"
InFlight(vid) == vid \in inflight

\* a finally block that leaves the entry
Discarded_Kept(c) == inflight

\* loop, the finally block around _post: _INFLIGHT_VIDS.discard(vid_s)
Discarded(c) == inflight \ {cur[c].vid}

\* loop: write the keys and the video id, then _write_json_best_effort
RecordAndWrite(c, r) ==
    /\ state' = [state EXCEPT ![c] = Record(@, AliasKeys(r.t), r.vid)]
    /\ disk' = WriteJson(disk, state'[c], fs_ok)

\* loop: the handler of this result is over, on to the next result
NextResult(c) ==
    /\ pc' = [pc EXCEPT ![c] = "results"]
    /\ cur' = [cur EXCEPT ![c] = NoResult]

\* loop, after "await self._post(...)" returned: the finally block, then the
\* write to all keys
AfterPost(c) ==
    /\ inflight' = Discarded(c)
    /\ RecordAndWrite(c, cur[c])
    /\ NextResult(c)

\* before_loop: the one-time warm-up and sweep. en: the enable flag in the
\* environment now; chan: the announce channel could be fetched.
BeforeLoop(c, en, chan) ==
    /\ pc[c] = "boot"
    /\ pc' = [pc EXCEPT ![c] = "idle"]
    /\ IF en /\ ~sweep_done[c]
       THEN /\ sweep_done' = [sweep_done EXCEPT ![c] = TRUE]
            /\ cache_ready' = [cache_ready EXCEPT ![c] = @ \/ chan]
            /\ cache' = [cache EXCEPT ![c] =
                            IF chan /\ hist_ok THEN @ \cup WarmVids(history) ELSE @]
            /\ history' = IF chan /\ hist_ok THEN Swept(history) ELSE history
       ELSE UNCHANGED <<sweep_done, cache_ready, cache, history>>
    /\ UNCHANGED <<state, cur, disk, inflight, pipeVars>>
    /\ UNCHANGED <<cfgVars, envVars, ghostVars, passVars>>

\* a pass that does not look at the enable flag
LoopBegin_FlagIgnored(c, en, chan) ==
    /\ pc[c] = "idle"
    /\ pc' = [pc EXCEPT ![c] = IF chan THEN "results" ELSE "idle"]
    /\ UNCHANGED <<state, cache, cache_ready, sweep_done, cur, disk, history,
                   inflight, pipeVars>>
    /\ UNCHANGED <<cfgVars, envVars, ghostVars, passVars>>

\* loop, up to the fan-out: the enable flag is read from the environment, the
\* channel is fetched. en: the flag now; chan: the channel could be fetched.
LoopBegin(c, en, chan) ==
    /\ pc[c] = "idle"
    /\ pc' = [pc EXCEPT ![c] = IF en /\ chan THEN "results" ELSE "idle"]
    /\ UNCHANGED <<state, cache, cache_ready, sweep_done, cur, disk, history,
                   inflight, pipeVars>>
    /\ UNCHANGED <<cfgVars, envVars, ghostVars, passVars>>

\* loop: "for res in results" is exhausted
LoopEnd(c) ==
    /\ pc[c] = "results"
    /\ pc' = [pc EXCEPT ![c] = "idle"]
    /\ UNCHANGED <<state, cache, cache_ready, sweep_done, cur, disk, history,
                   inflight, pipeVars>>
    /\ UNCHANGED <<cfgVars, envVars, ghostVars, passVars>>

\* loop: one result, from the key list to the first await of
\* _announce_channel_has_video (a cache hit returns without awaiting)
Gate(c, r) ==
    /\ pc[c] = "results"
    /\ IF AlreadyAnnounced(c, r.vid)
       THEN /\ state' = [state EXCEPT ![c].announced = AlignKeys(@, AliasKeys(r.t), r.vid)]
            /\ UNCHANGED <<disk, pc, cur>>
       ELSE IF Suppressed(r) \/ r.vid \in cache[c]
       THEN /\ RecordAndWrite(c, r)
            /\ UNCHANGED <<pc, cur>>
       ELSE /\ pc' = [pc EXCEPT ![c] = "hist"]
            /\ cur' = [cur EXCEPT ![c] = Handled(r)]
            /\ UNCHANGED <<state, disk>>
    /\ UNCHANGED <<cache, cache_ready, sweep_done, history, inflight, pipeVars>>
    /\ UNCHANGED <<cfgVars, envVars, ghostVars, passVars>>

\* loop: _announce_channel_has_video resumes: the warm-up when the cache is not
\* ready, else the scan; on "not found" the name check, the in-flight guard
\* and the entry into _post up to its own history check
LoopHistory(c) ==
    /\ pc[c] = "hist"
    /\ LET r == cur[c] IN
       IF ~cache_ready[c]
       THEN /\ cache_ready' = [cache_ready EXCEPT ![c] = TRUE]
            /\ cache' = [cache EXCEPT ![c] = IF hist_ok THEN @ \cup WarmVids(history) ELSE @]
            /\ IF r.vid \in cache'[c]
               THEN RecordAndWrite(c, r) /\ NextResult(c)
               ELSE UNCHANGED <<state, disk, pc, cur>>
            /\ UNCHANGED inflight
       ELSE /\ UNCHANGED <<cache, cache_ready>>
            /\ IF hist_ok /\ ScanHas(history, r.vid)
               THEN RecordAndWrite(c, r) /\ NextResult(c) /\ UNCHANGED inflight
               ELSE IF r.creator_name = "" \/ InFlight(r.vid)
               THEN NextResult(c) /\ UNCHANGED <<state, disk, inflight>>
               ELSE /\ inflight' = inflight \cup {r.vid}
                    /\ pc' = [pc EXCEPT ![c] = "post_hist"]
                    /\ UNCHANGED <<state, disk, cur>>
    /\ UNCHANGED <<sweep_done, history, pipeVars>>
    /\ UNCHANGED <<cfgVars, envVars, ghostVars, passVars>>

\* _post: _announce_channel_has_video resumes, then _send_queued up to "await fut"
PostHistory(c) ==
    /\ pc[c] = "post_hist"
    /\ LET r == cur[c] IN
       IF r.vid \in cache[c] \/ (hist_ok /\ ScanHas(history, r.vid))
       THEN AfterPost(c) /\ UNCHANGED <<queue, fut>>
       ELSE IF ~SendQueuedAccepts(c)
       THEN AfterPost(c) /\ UNCHANGED <<queue, fut>>
       ELSE /\ queue' = [queue EXCEPT ![c] = Append(@, [id |-> c, vid |-> r.vid])]
            /\ fut' = [fut EXCEPT ![c] = "pending"]
            /\ pc' = [pc EXCEPT ![c] = "send_wait"]
            /\ UNCHANGED <<state, disk, inflight, cur>>
    /\ UNCHANGED <<cache, cache_ready, sweep_done, history>>
    /\ UNCHANGED <<wpc, witem, gap, cool_left, since_last, since_done, sent>>
    /\ UNCHANGED <<cfgVars, envVars, ghostVars, passVars>>

\* _post: "await fut" resumes with the message, None or the send error
SendReturnedCore(c) ==
    /\ pc[c] = "send_wait"
    /\ fut[c] \in FutDone
    /\ fut' = [fut EXCEPT ![c] = "none"]
    /\ IF fut[c] = "msg"
       THEN /\ cache' = [cache EXCEPT ![c] = @ \cup {cur[c].vid}]
            /\ pc' = [pc EXCEPT ![c] = "cleanup"]
            /\ UNCHANGED <<state, disk, inflight, cur>>
       ELSE IF fut[c] = "nomsg"
       THEN AfterPost(c) /\ UNCHANGED cache
       ELSE /\ inflight' = Discarded(c)
            /\ NextResult(c)
            /\ UNCHANGED <<state, disk, cache>>
    /\ UNCHANGED <<cache_ready, sweep_done, history>>
    /\ UNCHANGED <<queue, wpc, witem, gap, cool_left, since_last, since_done, sent>>

\* the same step in a specification that keeps no log of send errors
SendReturned(c) ==
    /\ SendReturnedCore(c)
    /\ UNCHANGED <<cfgVars, envVars, ghostVars, passVars>>

\* _post: _cleanup_duplicate_announcements, then back in loop
Cleanup(c) ==
    /\ pc[c] = "cleanup"
    /\ history' = IF hist_ok THEN CleanedUp(history, cur[c].vid) ELSE history
    /\ AfterPost(c)
    /\ UNCHANGED <<cache, cache_ready, sweep_done, pipeVars>>
    /\ UNCHANGED <<cfgVars, envVars, ghostVars, passVars>>

\* cog_unload: self.loop.cancel() and self._send_worker_task.cancel(). The loop
\* task gets CancelledError at the await it is suspended in; inside
\* "try: await self._post(...)" the finally block releases the in-flight entry.
CogUnload(c) ==
    /\ pc[c] \in {"boot", "idle", "hist", "post_hist", "send_wait", "cleanup"}
    /\ inflight' = IF pc[c] \in {"post_hist", "send_wait", "cleanup"}
                   THEN Discarded(c) ELSE inflight
    /\ pc' = [pc EXCEPT ![c] = "stopped"]
    /\ cur' = [cur EXCEPT ![c] = NoResult]
    /\ wpc' = [wpc EXCEPT ![c] = "stopped"]
    /\ witem' = [witem EXCEPT ![c] = NoResult]
    /\ gap' = [gap EXCEPT ![c] = 0]
    /\ UNCHANGED <<state, cache, cache_ready, sweep_done, disk, history>>
    /\ UNCHANGED <<queue, fut, cool_left, since_last, since_done, sent>>
    /\ UNCHANGED <<cfgVars, envVars, ghostVars, passVars>>

\* The process dies at any point and is started again: module level and
\* __init__ run anew, on_ready starts the loop and the send worker.
Restart ==
    /\ prev_sent' = prev_sent \cup {v \in Vids : \E c \in Loops : sent[c][v] > 0}
    /\ loaded' = [c \in Loops |-> IF c \in loops THEN disk.announced_vids ELSE {}]
    /\ state' = [c \in Loops |-> IF c \in loops THEN LoadState(disk) ELSE EmptyState]
    /\ inflight' = {}
    /\ cache' = [c \in Loops |-> {}]
    /\ cache_ready' = [c \in Loops |-> FALSE]
    /\ sweep_done' = [c \in Loops |-> FALSE]
    /\ pc' = [c \in Loops |-> IF c \in loops THEN "boot" ELSE "off"]
    /\ cur' = [c \in Loops |-> NoResult]
    /\ queue' = [c \in Loops |-> <<>>]
    /\ fut' = [r \in ReqIds |-> "none"]
    /\ wpc' = [c \in Loops |-> IF c \in loops THEN "get" ELSE "stopped"]
    /\ witem' = [c \in Loops |-> NoResult]
    /\ gap' = [c \in Loops |-> 0]
    /\ cool_left' = [c \in Loops |-> 0]
    /\ since_last' = [c \in Loops |-> DISCORD_SEND_THROTTLE_SECONDS]
    /\ since_done' = [c \in Loops |-> DISCORD_SEND_THROTTLE_SECONDS]
    /\ sent' = [c \in Loops |-> [v \in Vids |-> 0]]
    /\ UNCHANGED <<disk, history>>
    /\ UNCHANGED <<cfgVars, envVars, passVars>>

(***************************************************************************)
(* Environment                                                             *)
(***************************************************************************)
\* another client posts in the announce channel: another running instance of
\* this bot account, or any other author
ForeignPost(m) ==
    /\ history' = Posted(history, m)
    /\ UNCHANGED <<disk, inflight, cogVars, pipeVars>>
    /\ UNCHANGED <<cfgVars, envVars, ghostVars, passVars>>

\* what other clients post: this bot account running elsewhere, or someone else
ForeignMsgs == {Msg(Me, "v1"), Msg(Me, "v2"), Msg(Someone, "v1")}

\* reading the channel history starts / stops failing
HistToggle ==
    /\ hist_ok' = ~hist_ok
    /\ UNCHANGED <<fs_ok, disk, history, inflight, cogVars, pipeVars>>
    /\ UNCHANGED <<cfgVars, ghostVars, passVars>>

(***************************************************************************)
(* Specification of the announce engine                                    *)
(***************************************************************************)
InitCommon ==
    /\ fs_ok = TRUE
    /\ hist_ok = TRUE
    /\ disk = EmptyState
    /\ history = <<>>
    /\ inflight = {}
    /\ state = [c \in Loops |-> EmptyState]
    /\ cache = [c \in Loops |-> {}]
    /\ cache_ready = [c \in Loops |-> FALSE]
    /\ sweep_done = [c \in Loops |-> FALSE]
    /\ pc = [c \in Loops |-> IF c \in loops THEN "boot" ELSE "off"]
    /\ cur = [c \in Loops |-> NoResult]
    /\ queue = [c \in Loops |-> <<>>]
    /\ fut = [r \in ReqIds |-> "none"]
    /\ wpc = [c \in Loops |-> IF c \in loops THEN "get" ELSE "stopped"]
    /\ witem = [c \in Loops |-> NoResult]
    /\ gap = [c \in Loops |-> 0]
    /\ cool_left = [c \in Loops |-> 0]
    /\ since_last = [c \in Loops |-> DISCORD_SEND_THROTTLE_SECONDS]
    /\ since_done = [c \in Loops |-> DISCORD_SEND_THROTTLE_SECONDS]
    /\ sent = [c \in Loops |-> [v \in Vids |-> 0]]
    /\ prev_sent = {}
    /\ loaded = [c \in Loops |-> {}]

\* no function check is running
FnOff ==
    /\ arg = <<>>
    /\ ret = <<>>
    /\ lost = {}

\* no merge of the watchlist is looked at
MergeOff ==
    /\ m_in = <<>>
    /\ m_res = <<>>
    /\ m_once = [done |-> FALSE, merged |-> <<>>]
    /\ m_twice = [done |-> FALSE, merged |-> <<>>]

PassOff ==
    /\ http = <<>>
    /\ inst = <<>>
    /\ oldest = 0
    /\ MergeOff
    /\ FnOff
    /\ tgt = <<>>
    /\ elapsed = 0
    /\ poll_s = 0
    /\ ppc = "off"

Init ==
    /\ loops = {1}
    /\ InitCommon
    /\ PassOff

\* the poll loop task of the loaded cogs; R: what _check_live can return
LoopSteps(R) ==
    \/ \E c \in loops, en \in BOOLEAN, chan \in BOOLEAN : BeforeLoop(c, en, chan)
    \/ \E c \in loops, en \in BOOLEAN, chan \in BOOLEAN : LoopBegin(c, en, chan)
    \/ \E c \in loops : LoopEnd(c)
    \/ \E c \in loops, r \in R : Gate(c, r)
    \/ \E c \in loops : LoopHistory(c)
    \/ \E c \in loops : PostHistory(c)
    \/ \E c \in loops : SendReturned(c)
    \/ \E c \in loops : Cleanup(c)

\* the send worker task of the loaded cogs, and the clock
WorkerSteps ==
    \/ \E c \in loops : WorkerGet(c)
    \/ \E c \in loops : SendOk(c)
    \/ \E c \in loops, cf \in BOOLEAN : SendFail(c, cf)
    \/ Tick

\* One lifetime of the process with the cog loaded once.
Next ==
    \/ LoopSteps(Results)
    \/ WorkerSteps
    \/ \E c \in loops : CogUnload(c)
    \/ \E m \in ForeignMsgs : ForeignPost(m)
    \/ HistToggle

Spec == Init /\ [][Next]_vars

\* Lifetimes of the process: it dies at any point and starts again.
NextRestart ==
    \/ LoopSteps(Results)
    \/ WorkerSteps
    \/ Restart
    \/ HistToggle

SpecRestart == Init /\ [][NextRestart]_vars

\* The cog loaded twice in one process (a double load), both loops handling
\* the same fresh, named detection of one video.
RaceResults ==
    {r \in Results : /\ r.t = T_resolved /\ r.vid = "v1"
                     /\ r.start_ts = "fresh" /\ r.creator_name = "name"}

InitRace ==
    /\ loops = {1, 2}
    /\ InitCommon
    /\ PassOff

NextRace ==
    \/ LoopSteps(RaceResults)
    \/ WorkerSteps
    \/ \E c \in loops : CogUnload(c)

SpecRace == InitRace /\ [][NextRace]_vars

\* One lifetime in which _check_live reports StaleVid only ever with a start
\* time older than the max age (from either identity of the channel, named or
\* not), next to a fresh detection of the other video.
StaleVid == "v1"

StaleResults ==
    {r \in Results : \/ r.vid = StaleVid /\ r.start_ts = "stale"
                     \/ /\ r.vid # StaleVid /\ r.start_ts = "fresh"
                        /\ r.t = T_resolved /\ r.creator_name = "name"}

NextStale ==
    \/ LoopSteps(StaleResults)
    \/ WorkerSteps

SpecStale == Init /\ [][NextStale]_vars

\* One lifetime that starts with the announce channel full of messages:
\* messages of this bot with and without a video id, and of another author.
BootMsgs == {Msg(Me, "v1"), Msg(Me, "v2"), Msg(Me, NoVid), Msg(Someone, "v1")}
BootHistories == [1..HistKept -> BootMsgs]

InitSweep ==
    /\ loops = {1}
    /\ fs_ok = TRUE
    /\ hist_ok \in BOOLEAN
    /\ disk = EmptyState
    /\ history \in BootHistories
    /\ inflight = {}
    /\ state = [c \in Loops |-> EmptyState]
    /\ cache = [c \in Loops |-> {}]
    /\ cache_ready = [c \in Loops |-> FALSE]
    /\ sweep_done = [c \in Loops |-> FALSE]
    /\ pc = [c \in Loops |-> IF c \in loops THEN "boot" ELSE "off"]
    /\ cur = [c \in Loops |-> NoResult]
    /\ queue = [c \in Loops |-> <<>>]
    /\ fut = [r \in ReqIds |-> "none"]
    /\ wpc = [c \in Loops |-> IF c \in loops THEN "get" ELSE "stopped"]
    /\ witem = [c \in Loops |-> NoResult]
    /\ gap = [c \in Loops |-> 0]
    /\ cool_left = [c \in Loops |-> 0]
    /\ since_last = [c \in Loops |-> DISCORD_SEND_THROTTLE_SECONDS]
    /\ since_done = [c \in Loops |-> DISCORD_SEND_THROTTLE_SECONDS]
    /\ sent = [c \in Loops |-> [v \in Vids |-> 0]]
    /\ prev_sent = {}
    /\ loaded = [c \in Loops |-> {}]
    /\ PassOff

NextSweep ==
    \/ LoopSteps(RaceResults)
    \/ WorkerSteps

SpecSweep == InitSweep /\ [][NextSweep]_vars

\* One lifetime of the loop and its send worker with the cog loaded once,
\* nobody else posting in the channel and the history always readable.
NextLoop ==
    \/ LoopSteps(Results)
    \/ WorkerSteps

SpecLoop == Init /\ [][NextLoop]_vars

(***************************************************************************)
(* Specification of the delivery pipeline on its own                      *)
(***************************************************************************)
\* A coroutine calls _send_queued of cog c, up to "return None" or "await fut".
\* r names the call, vid the video its message is about.
ClientSend(c, r, vid) ==
    /\ fut[r] = "none"
    /\ IF SendQueuedAccepts(c)
       THEN /\ queue' = [queue EXCEPT ![c] = Append(@, [id |-> r, vid |-> vid])]
            /\ fut' = [fut EXCEPT ![r] = "pending"]
       ELSE /\ fut' = [fut EXCEPT ![r] = "nomsg"]
            /\ UNCHANGED queue
    /\ UNCHANGED <<wpc, witem, gap, cool_left, since_last, since_done, sent>>
    /\ UNCHANGED <<disk, history, inflight, cogVars>>
    /\ UNCHANGED <<cfgVars, envVars, ghostVars, passVars>>

\* the call returns to its caller: None, the message, or the send error
ClientReturn(r) ==
    /\ fut[r] \in FutDone
    /\ fut' = [fut EXCEPT ![r] = "none"]
    /\ UNCHANGED <<queue, wpc, witem, gap, cool_left, since_last, since_done, sent>>
    /\ UNCHANGED <<disk, history, inflight, cogVars>>
    /\ UNCHANGED <<cfgVars, envVars, ghostVars, passVars>>

\* The pipeline of one cog under any callers of _send_queued (in the cog, _post
\* is the one caller, and the loop has one call open at a time).
NextSend ==
    \/ \E r \in ReqIds, v \in Vids : ClientSend(1, r, v)
    \/ \E r \in ReqIds : ClientReturn(r)
    \/ WorkerSteps

SpecSend == Init /\ [][NextSend]_vars

(***************************************************************************)
(* Specification of the timing of a poll pass                              *)
(***************************************************************************)
\* Times of this part are in seconds.
POLL_SECONDS == 20
CHECK_TIMEOUT_SECONDS == 15

\* NIXE_YT_WUWA_ANNOUNCE_POLL_SECONDS: the default and a short interval
PollChoices == {3, POLL_SECONDS}

\* the default of LOOP_DEADLINE_SECONDS for a poll interval
LOOP_DEADLINE_SECONDS(poll) == Max(5, poll - 2)

\* the targets of the watchlist
NumTargets == 2
Targets == 1..NumTargets

\* The tasks of a fan-out, one per target of the reloaded watchlist, which may
\* be empty: _check_live of a target either returns at some time or never does.
FanOut ==
    UNION {[1..n -> {[kind |-> k, st |-> "running"] : k \in {"returns", "hangs"}}] :
              n \in 0..NumTargets}

\* tasks_list
Tasks == DOMAIN tgt

Running(i) == tgt[i].st = "running"

\* asyncio.wait_for(self._check_live(tt), timeout=CHECK_TIMEOUT_SECONDS) is due
TimeoutDue == \E i \in Tasks : Running(i) /\ elapsed >= CHECK_TIMEOUT_SECONDS

\* a wait that has no deadline
WaitOver_AllDone == \A i \in Tasks : ~Running(i)

\* asyncio.wait(tasks_list, timeout=deadline) returns: every task is done, or
\* the deadline has passed
WaitOver ==
    \/ \A i \in Tasks : ~Running(i)
    \/ elapsed >= LOOP_DEADLINE_SECONDS(poll_s)

\* _run_one: _check_live returned; res: a detection result or None (an
\* exception in _check_live ends in None as well)
CheckReturns(i, res) ==
    /\ ppc = "wait"
    /\ i \in Tasks
    /\ Running(i)
    /\ tgt[i].kind = "returns"
    /\ tgt' = [tgt EXCEPT ![i].st = res]
    /\ UNCHANGED <<elapsed, poll_s, ppc, engineVars, sendVars, httpVars, instVars, mergeVars, auxVars>>

\* _run_one: wait_for cut _check_live off, the task ends with None
CheckTimeout(i) ==
    /\ ppc = "wait"
    /\ i \in Tasks
    /\ Running(i)
    /\ elapsed >= CHECK_TIMEOUT_SECONDS
    /\ tgt' = [tgt EXCEPT ![i].st = "cut"]
    /\ UNCHANGED <<elapsed, poll_s, ppc, engineVars, sendVars, httpVars, instVars, mergeVars, auxVars>>

\* loop: asyncio.wait returns, the pending tasks are cancelled, the results of
\* the done ones are collected
WaitReturns ==
    /\ ppc = "wait"
    /\ tgt # <<>>
    /\ WaitOver
    /\ tgt' = [i \in Tasks |-> IF Running(i) THEN [tgt[i] EXCEPT !.st = "cancelled"]
                                  ELSE tgt[i]]
    /\ ppc' = "handle"
    /\ UNCHANGED <<elapsed, poll_s, engineVars, sendVars, httpVars, instVars, mergeVars, auxVars>>

\* loop: asyncio.wait(tasks_list, ...) is called with an empty list and raises
\* ValueError; nothing in loop catches it and tasks.loop ends the loop task on
\* an exception that is not a connection error
WaitRaises ==
    /\ ppc = "wait"
    /\ tgt = <<>>
    /\ ppc' = "dead"
    /\ UNCHANGED <<tgt, elapsed, poll_s, engineVars, sendVars, httpVars, instVars, mergeVars, auxVars>>

\* loop: "for res in results" takes the next result. results was filled by
\* "for d in done", and done is a set of tasks: its iteration order is that of
\* the task objects' hashes, so any collected result can be the next one.
\* (Handling takes no time in this part.)
HandleResult(i) ==
    /\ ppc = "handle"
    /\ i \in Tasks
    /\ tgt[i].st = "result"
    /\ tgt' = [tgt EXCEPT ![i].st = "handled"]
    /\ UNCHANGED <<elapsed, poll_s, ppc, engineVars, sendVars, httpVars, instVars, mergeVars, auxVars>>

\* a loop over the results that stops before the first one
Exhausted_AtOnce == TRUE

\* loop: "for res in results" has no result left
Exhausted == \A i \in Tasks : tgt[i].st # "result"

\* loop: the results are handled and the pass is over
PassEnd ==
    /\ ppc = "handle"
    /\ Exhausted
    /\ ppc' = "sleep"
    /\ UNCHANGED <<tgt, elapsed, poll_s, engineVars, sendVars, httpVars, instVars, mergeVars, auxVars>>

\* a second passes: during the wait unless a timer is due, and after the pass
\* until the next one is due
PassTick ==
    /\ \/ ppc = "wait" /\ ~WaitOver /\ ~TimeoutDue
       \/ ppc = "sleep" /\ elapsed < poll_s
    /\ elapsed' = elapsed + 1
    /\ UNCHANGED <<tgt, poll_s, ppc, engineVars, sendVars, httpVars, instVars, mergeVars, auxVars>>

\* tasks.loop(seconds=POLL_SECONDS): the next pass starts POLL_SECONDS after
\* the start of this one, or when this one is over if that is later
NextPass ==
    /\ ppc = "sleep"
    /\ elapsed >= poll_s
    /\ elapsed' = 0
    /\ ppc' = "wait"
    /\ tgt' \in FanOut
    /\ UNCHANGED <<poll_s, engineVars, sendVars, httpVars, instVars, mergeVars, auxVars>>

InitPass ==
    /\ loops = {1}
    /\ InitCommon
    /\ poll_s \in PollChoices
    /\ ppc = "wait"
    /\ elapsed = 0
    /\ tgt \in FanOut
    /\ http = <<>>
    /\ inst = <<>>
    /\ oldest = 0
    /\ MergeOff
    /\ FnOff

NextPassStep ==
    \/ \E i \in Targets, res \in {"result", "none"} : CheckReturns(i, res)
    \/ \E i \in Targets : CheckTimeout(i)
    \/ WaitReturns
    \/ WaitRaises
    \/ \E i \in Targets : HandleResult(i)
    \/ PassEnd
    \/ PassTick
    \/ NextPass

SpecPass == InitPass /\ [][NextPassStep]_vars

(***************************************************************************)
(* HTTP requests of the detection fan-out                                  *)
(***************************************************************************)
\* self.sem = asyncio.Semaphore(max(1, CONCURRENCY))
CONCURRENCY == 2
SemSize == Max(1, CONCURRENCY)

\* the detection tasks of one pass, one per target (the tasks of the pass
\* before are cancelled before the next pass creates its own)
NumHttpTasks == 3
HttpTasks == 1..NumHttpTasks

\* _check_live: the requests one detection can make, in this order: the
\* channel search of _resolve_channel, the display-name lookup for the channel
\* url, the /live page, the watch page of the fallback path, the display-name
\* lookup for the watch url, the channel page
Stages == <<"search", "name", "live", "watch", "name2", "page">>
Finished == Len(Stages) + 1

\* which request is made inside "async with self.sem": those of
\* _http_get_text; _try_fetch_channel_name_oembed calls self.session.get itself
ViaSemaphore(k) == Stages[k] \notin {"name", "name2"}

\* the tasks whose request is open: session.get entered and not left
Open == {i \in HttpTasks : http[i].ph = "open"}

\* the tasks inside "async with self.sem"
Holding == {i \in Open : ViaSemaphore(http[i].k)}

\* asyncio.Semaphore: acquire returns at once while the value is positive
SemFree == Cardinality(Holding) < SemSize

\* the task calls the request of its stage: through the semaphore (at once or
\* after waiting) or directly
HttpCall(i) ==
    /\ http[i].k # Finished
    /\ http[i].ph = "idle"
    /\ http' = [http EXCEPT ![i].ph =
                   IF ViaSemaphore(http[i].k) /\ ~SemFree THEN "wait" ELSE "open"]
    /\ UNCHANGED <<tgt, elapsed, poll_s, ppc, engineVars, sendVars, instVars, mergeVars, auxVars>>

\* Task i leaves its request and becomes rec. When it leaves "async with
\* self.sem" and tasks wait there, release() wakes one of them and no newcomer
\* gets in before it (asyncio wakes the longest waiting one; the order of
\* waiting is not kept here, any of them can be the one).
Leave(i, rec) ==
    LET left == [http EXCEPT ![i] = rec]
        waiting == {j \in HttpTasks \ {i} : http[j].ph = "wait"}
    IN  IF i \in Holding /\ waiting # {}
        THEN {[left EXCEPT ![j].ph = "open"] : j \in waiting}
        ELSE {left}

\* the response is read (or the request fails) and the task goes on
HttpDone(i) ==
    /\ http[i].ph = "open"
    /\ http' \in Leave(i, [k |-> http[i].k + 1, ph |-> "idle"])
    /\ UNCHANGED <<tgt, elapsed, poll_s, ppc, engineVars, sendVars, instVars, mergeVars, auxVars>>

\* the task does not need the request of its stage: the channel is resolved,
\* the name is known, the /live page had the player response. The /live page
\* itself is always requested.
HttpSkip(i) ==
    /\ http[i].k # Finished
    /\ http[i].ph = "idle"
    /\ Stages[http[i].k] # "live"
    /\ http' = [http EXCEPT ![i].k = @ + 1]
    /\ UNCHANGED <<tgt, elapsed, poll_s, ppc, engineVars, sendVars, instVars, mergeVars, auxVars>>

\* the task ends here: _check_live returns, or the task is cut off by
\* wait_for or cancelled at the pass deadline (the context managers close the
\* request and release the semaphore)
HttpEnd(i) ==
    /\ http[i].k # Finished
    /\ http' \in Leave(i, [k |-> Finished, ph |-> "idle"])
    /\ UNCHANGED <<tgt, elapsed, poll_s, ppc, engineVars, sendVars, instVars, mergeVars, auxVars>>

InitHttp ==
    /\ loops = {1}
    /\ InitCommon
    /\ tgt = <<>>
    /\ elapsed = 0
    /\ poll_s = 0
    /\ ppc = "off"
    /\ http = [i \in HttpTasks |-> [k |-> 1, ph |-> "idle"]]
    /\ inst = <<>>
    /\ oldest = 0
    /\ MergeOff
    /\ FnOff

NextHttp ==
    \/ \E i \in HttpTasks : HttpCall(i)
    \/ \E i \in HttpTasks : HttpDone(i)
    \/ \E i \in HttpTasks : HttpSkip(i)
    \/ \E i \in HttpTasks : HttpEnd(i)

SpecHttp == InitHttp /\ [][NextHttp]_vars

(***************************************************************************)
(* Several instances of the bot account posting for the same video         *)
(***************************************************************************)
\* Processes running this bot account, each with its own state, that all
\* detected RaceVid and found no message for it when they looked.
NumInstances == 3
Instances == 1..NumInstances
RaceVid == "v1"

\* _DEDUP_HISTORY_LIMIT and the cap on the matches ("if len(matches) >= 6:
\* break"), scaled: the cap is below the window as in the source
RaceWindow == 3
MatchCap == 2

\* what other authors post in between
MaxOther == 2
Others(h) == {i \in DOMAIN h : h[i].author = Someone}

\* the message of instance p; snowflake ids grow with time, so the order of
\* the ids is the order of the messages in the channel
MsgOf(p) == [author |-> Me, vid |-> RaceVid, id |-> p]

\* positions of all messages of this bot account for vid
Mine(h, vid) == {i \in DOMAIN h : h[i].author = Me /\ h[i].vid = vid}

\* _cleanup_duplicate_announcements, the scan: channel.history yields the
\* RaceWindow newest messages, newest first; the loop collects this bot's
\* messages for vid and stops at MatchCap of them
Scanned(h, vid) ==
    LET m == Matches(h, RaceWindow, vid)
    IN  {i \in m : Cardinality({j \in m : j > i}) < MatchCap}

\* a cleanup that keeps the newest match
Doomed_KeepNewest(h, taken) ==
    {h[i].id : i \in {j \in taken : \E k \in taken : k > j}}

\* _cleanup_duplicate_announcements: matches.sort by id, keep matches[0],
\* the others are to be deleted
Doomed(h, taken) ==
    {h[i].id : i \in {j \in taken : \E k \in taken : k < j}}

\* _post: channel.send returned the message of instance p
InstSend(p) ==
    /\ inst[p].ph = "idle"
    /\ history' = Append(history, MsgOf(p))
    /\ inst' = [inst EXCEPT ![p].ph = "sent"]
    /\ oldest' = IF oldest = 0 THEN p ELSE oldest
    /\ UNCHANGED <<loops, fs_ok, hist_ok, disk, inflight, cogVars, pipeVars>>
    /\ UNCHANGED <<mergeVars, auxVars, ghostVars, tgt, elapsed, poll_s, ppc, httpVars>>

\* somebody else posts in the channel
OtherPost ==
    /\ Cardinality(Others(history)) < MaxOther
    /\ history' = Append(history, [author |-> Someone, vid |-> NoVid, id |-> 0])
    /\ UNCHANGED <<loops, fs_ok, hist_ok, disk, inflight, cogVars, pipeVars>>
    /\ UNCHANGED <<mergeVars, auxVars, ghostVars, tgt, elapsed, poll_s, ppc, httpVars, instVars>>

\* _cleanup_duplicate_announcements of instance p up to its first delete:
\* the history is read (ok) or reading raises and the cleanup returns; with
\* one match or none it returns as well. all: whether the scan got every
\* message for the video that is in the channel.
InstScan(p, ok) ==
    /\ inst[p].ph = "sent"
    /\ LET taken == IF ok THEN Scanned(history, RaceVid) ELSE {}
           del == Doomed(history, taken)
       IN  inst' = [inst EXCEPT ![p] =
                       [ph |-> IF del = {} THEN "done" ELSE "deleting",
                        del |-> del,
                        all |-> ok /\ taken = Mine(history, RaceVid)]]
    /\ UNCHANGED <<loops, fs_ok, hist_ok, disk, history, inflight, cogVars, pipeVars>>
    /\ UNCHANGED <<mergeVars, auxVars, ghostVars, tgt, elapsed, poll_s, ppc, httpVars, oldest>>

\* "await m.delete()" for one of the matches: the message is gone afterwards
\* (deleting a message that is gone already raises, which is swallowed)
InstDelete(p, id) ==
    /\ inst[p].ph = "deleting"
    /\ id \in inst[p].del
    /\ history' = Keep(history, {i \in DOMAIN history :
                                    history[i].author # Me \/ history[i].id # id})
    /\ inst' = [inst EXCEPT ![p].del = @ \ {id},
                            ![p].ph = IF inst[p].del = {id} THEN "done" ELSE "deleting"]
    /\ UNCHANGED <<loops, fs_ok, hist_ok, disk, inflight, cogVars, pipeVars>>
    /\ UNCHANGED <<mergeVars, auxVars, ghostVars, tgt, elapsed, poll_s, ppc, httpVars, oldest>>

InitInstances ==
    /\ loops = {1}
    /\ InitCommon
    /\ tgt = <<>>
    /\ elapsed = 0
    /\ poll_s = 0
    /\ ppc = "off"
    /\ http = <<>>
    /\ inst = [p \in Instances |-> [ph |-> "idle", del |-> {}, all |-> FALSE]]
    /\ oldest = 0
    /\ MergeOff
    /\ FnOff

NextInstances ==
    \/ \E p \in Instances : InstSend(p)
    \/ OtherPost
    \/ \E p \in Instances, ok \in BOOLEAN : InstScan(p, ok)
    \/ \E p \in Instances, id \in Instances : InstDelete(p, id)

SpecInstances == InitInstances /\ [][NextInstances]_vars

(***************************************************************************)
(* Merging watchlist targets: _merge_targets, _targets_semantic_repr       *)
(***************************************************************************)
\* The strings of the model. The string functions of the source are given by
\* their values on these strings.
UC1 == "UCaaaaaaaaaaaaaaaaaaaaaa"
UC2 == "UCbbbbbbbbbbbbbbbbbbbbbb"
U_x == "https://www.youtube.com/@x"
U_X == "https://www.youtube.com/@X"
U_X_videos == "https://www.youtube.com/@X/videos"
U_foo == "https://www.youtube.com/foo"
U_foo_videos == "https://www.youtube.com/foo/videos"
U_foo_videos_live == "https://www.youtube.com/foo/videos/live"

MNames == {"", "A", "@x"}
MQueries == {"", "@x"}
MHandles == {"", "@x", "@X"}
MCids == {"", UC1}
MUrls == {"", U_x, U_X_videos}

\* _canonicalize_youtube_channel_url: host in lower case, one page suffix
\* ("/videos", "/live") cut, a path that begins with a handle cut to the
\* handle, the case of the path kept
canonicalize_youtube_channel_url(u) ==
    IF u = U_X_videos THEN U_X
    ELSE IF u = U_foo_videos_live THEN U_foo_videos
    ELSE IF u = U_foo_videos THEN U_foo
    ELSE u

\* str.lower on a canonical url
lower(u) == IF u = U_X THEN U_x ELSE u

\* norm_handle: strip, leading "@" cut, NFKC, casefold
norm_handle(h) ==
    IF h \in {"@x", "@X"} THEN "x" ELSE IF h = "@y" THEN "y" ELSE ""

\* the name without a leading "@", NFKC, casefold
name_fold(nm) ==
    IF nm = "A" THEN "a" ELSE IF nm = "@x" THEN "x" ELSE nm

\* NFKC and casefold of the whole name (the sort key of the semantic form)
name_casefold(nm) == IF nm = "A" THEN "a" ELSE nm

\* str.startswith("@"), _UC_ID_LIKE_RE.match, str.lower().startswith("http")
starts_at(x) == x \in {"@x", "@X", "@y"}
uc_like(x) == x \in {UC1, UC2}
is_http(x) == x \in {U_x, U_X, U_X_videos, U_foo, U_foo_videos, U_foo_videos_live}

\* _target_dedupe_key
target_dedupe_key(t) ==
    IF t.channel_id # "" THEN "cid:" \o t.channel_id
    ELSE IF norm_handle(t.handle) # "" THEN "h:" \o norm_handle(t.handle)
    ELSE IF t.url # "" THEN "u:" \o lower(canonicalize_youtube_channel_url(t.url))
    ELSE "n:" \o name_fold(t.name)

\* "unique, preserve order"
Uniq(q) ==
    LET F[i \in 0..Len(q)] ==
            IF i = 0 THEN <<>>
            ELSE IF q[i] \in Range(F[i - 1]) THEN F[i - 1] ELSE Append(F[i - 1], q[i])
    IN  F[Len(q)]

\* aliases(d): the primary key first, then the aliases of channel_id, handle,
\* url, query and name
aliases(d) ==
    LET cid == IF d.channel_id # "" THEN <<"cid:" \o d.channel_id>> ELSE <<>>
        h == IF norm_handle(d.handle) # ""
             THEN <<"h:" \o norm_handle(d.handle)>> ELSE <<>>
        u == IF d.url # ""
             THEN <<"u:" \o lower(canonicalize_youtube_channel_url(d.url))>> ELSE <<>>
        q == IF starts_at(d.query) THEN <<"h:" \o norm_handle(d.query)>>
             ELSE IF uc_like(d.query) THEN <<"cid:" \o d.query>>
             ELSE IF is_http(d.query)
             THEN <<"u:" \o lower(canonicalize_youtube_channel_url(d.query))>>
             ELSE <<>>
        n == IF name_fold(d.name) # "" THEN <<"n:" \o name_fold(d.name)>> ELSE <<>>
    IN  Uniq(<<target_dedupe_key(d)>> \o cid \o h \o u \o q \o n)

\* is_better_name's conditions on the current name
placeholder(nm) == nm = "" \/ starts_at(nm) \/ uc_like(nm) \/ is_http(nm)

\* is_better_name
is_better_name(nm, new) == new # "" /\ placeholder(nm)

\* apply_resolved_cache: fill channel_id, url and name from the cache entry of
\* the query, then derive handle, channel_id, url from the query
apply_resolved_cache(res, d) ==
    LET q == d.query
        hit == q # "" /\ q \in DOMAIN res
        d1 == IF hit
              THEN [d EXCEPT
                      !.channel_id = IF res[q].channel_id # "" /\ @ = ""
                                     THEN res[q].channel_id ELSE @,
                      !.url = IF res[q].url # "" /\ @ = "" THEN res[q].url ELSE @,
                      !.name = IF res[q].title # "" /\ placeholder(@)
                               THEN res[q].title ELSE @]
              ELSE d
    IN  [d1 EXCEPT
           !.handle = IF starts_at(q) /\ @ = "" THEN q ELSE @,
           !.channel_id = IF uc_like(q) /\ @ = "" THEN q ELSE @,
           !.url = IF is_http(q) /\ @ = ""
                   THEN canonicalize_youtube_channel_url(q) ELSE @]

\* canonicalize_inplace (the handles of the model have one ASCII "@")
canonicalize_inplace(d) ==
    [d EXCEPT !.url = canonicalize_youtube_channel_url(@)]

\* bind_keys: index[k] = base for every alias of base; the index holds the
\* position of the dict in merged
bind_keys(index, base, pos) ==
    LET ks == Range(aliases(base))
    IN  [k \in (DOMAIN index) \cup ks |-> IF k \in ks THEN pos ELSE index[k]]

\* merge_into without bind_keys: the better name, the fields base lacks, then
\* apply_resolved_cache and canonicalize_inplace
merge_into(res, base, inc) ==
    LET b1 == [base EXCEPT !.name = IF is_better_name(@, inc.name) THEN inc.name ELSE @]
        b2 == [f \in DOMAIN b1 |->
                 IF f \in {"query", "handle", "channel_id", "url"} /\ b1[f] = "" /\ inc[f] # ""
                 THEN inc[f] ELSE b1[f]]
    IN  canonicalize_inplace(apply_resolved_cache(res, b2))

\* add_one without the counting of new items
add_one(res, acc, d0) ==
    LET d == canonicalize_inplace(apply_resolved_cache(res, d0))
        als == aliases(d)
        hits == {i \in DOMAIN als : als[i] \in DOMAIN acc.index}
    IN  IF hits # {}
        THEN LET first == CHOOSE i \in hits : \A j \in hits : i <= j
                 pos == acc.index[als[first]]
                 base == merge_into(res, acc.merged[pos], d)
             IN  [merged |-> [acc.merged EXCEPT ![pos] = base],
                  index |-> bind_keys(acc.index, base, pos)]
        ELSE [merged |-> Append(acc.merged, d),
              index |-> bind_keys(acc.index, d, Len(acc.merged) + 1)]

\* _merge_targets(existing, new_targets)[0] for lists of dicts: add_one for
\* every item of existing, then for every item of new_targets
merge_targets(res, existing, new_targets) ==
    LET all == existing \o new_targets
        F[i \in 0..Len(all)] ==
            IF i = 0 THEN [merged |-> <<>>, index |-> <<>>]
            ELSE add_one(res, F[i - 1], all[i])
    IN  F[Len(all)].merged

\* _targets_semantic_repr: the five fields with the url canonical and the
\* handle stripped, sorted by (dedupe key, casefolded name) with list.sort,
\* which is stable, then json.dumps. Two such strings are equal exactly when
\* for every sort key the items with that key are the same and in the same
\* order: the string is given as the map from the sort keys to these items.
targets_semantic_repr(targets) ==
    LET items == [i \in DOMAIN targets |-> canonicalize_inplace(targets[i])]
        key(z) == <<target_dedupe_key(z), name_casefold(z.name)>>
        group(k) == LET F[i \in 0..Len(items)] ==
                            IF i = 0 THEN <<>>
                            ELSE IF key(items[i]) = k THEN Append(F[i - 1], items[i])
                            ELSE F[i - 1]
                    IN  F[Len(items)]
    IN  [k \in {key(items[i]) : i \in DOMAIN items} |-> group(k)]

\* The target dicts given to the merge: at most MaxFields of the five fields
\* are set; lists of up to MaxLen of them.
MaxFields == 2
MaxLen == 3
TargetDicts ==
    {d \in [name : MNames, query : MQueries, handle : MHandles,
             channel_id : MCids, url : MUrls] :
        Cardinality({f \in DOMAIN d : d[f] # ""}) <= MaxFields}
TargetLists == UNION {[1..n -> TargetDicts] : n \in 0..MaxLen}

\* self.state["resolved"]: empty, or the entry _check_live writes for a handle
ResolvedChoices ==
    {<<>>, [q \in {"@x"} |-> [channel_id |-> UC1, title |-> "A", url |-> U_x]]}

\* merge([], L)
MergeOnce ==
    /\ ~m_once.done
    /\ m_once' = [done |-> TRUE, merged |-> merge_targets(m_res, <<>>, m_in)]
    /\ UNCHANGED <<m_in, m_res, m_twice>>
    /\ UNCHANGED <<engineVars, sendVars, tgt, elapsed, poll_s, ppc, httpVars, instVars, auxVars>>

\* merge(L, L)
MergeTwice ==
    /\ ~m_twice.done
    /\ m_twice' = [done |-> TRUE, merged |-> merge_targets(m_res, m_in, m_in)]
    /\ UNCHANGED <<m_in, m_res, m_once>>
    /\ UNCHANGED <<engineVars, sendVars, tgt, elapsed, poll_s, ppc, httpVars, instVars, auxVars>>

InitMerge ==
    /\ loops = {1}
    /\ InitCommon
    /\ tgt = <<>>
    /\ elapsed = 0
    /\ poll_s = 0
    /\ ppc = "off"
    /\ http = <<>>
    /\ inst = <<>>
    /\ oldest = 0
    /\ m_in \in TargetLists
    /\ m_res \in ResolvedChoices
    /\ m_once = [done |-> FALSE, merged |-> <<>>]
    /\ m_twice = [done |-> FALSE, merged |-> <<>>]
    /\ FnOff

NextMerge ==
    \/ MergeOnce
    \/ MergeTwice

SpecMerge == InitMerge /\ [][NextMerge]_vars

(***************************************************************************)
(* Checks of single functions: a call is made with arguments drawn from a  *)
(* bounded set, and its results are kept for the property to look at       *)
(***************************************************************************)

\* the state before the calls: nothing of the cog is running, the call's
\* arguments are chosen
InitFn(Args) ==
    /\ loops = {1}
    /\ InitCommon
    /\ tgt = <<>>
    /\ elapsed = 0
    /\ poll_s = 0
    /\ ppc = "off"
    /\ http = <<>>
    /\ inst = <<>>
    /\ oldest = 0
    /\ MergeOff
    /\ arg \in Args
    /\ ret = <<>>
    /\ lost = {}

(***************************************************************************)
(* Canonical channel URLs: _canonicalize_youtube_channel_url               *)
(*                                                                         *)
(* A URL is held the way urlparse takes it apart: the host, the segments   *)
(* of the path, and whether a query or fragment follows.  A path segment   *)
(* is its text and the number of times that text is percent-encoded:       *)
(* "@x" once encoded is "%40x", twice encoded "%2540x".  The scheme is     *)
(* left out: every result has "https".                                     *)
(***************************************************************************)
MaxSegs == 3
MaxEnc == 2
Hosts == {"youtube.com", "www.youtube.com"}
SegTexts == {"@x", "channel", UC1, "c", "foo", "videos", "live"}
PathSegs == [txt : SegTexts, enc : 0..MaxEnc]
Urls ==
    [host : Hosts,
     path : UNION {[1..n -> PathSegs] : n \in 0..MaxSegs},
     query : BOOLEAN]

\* the suffix pages cut from the end of a path
Suffixes == {"videos", "featured", "streams", "live", "community", "about", "playlists", "shorts"}

\* netloc: the three spellings of the site become www.youtube.com
netloc(h) == IF h \in {"youtube.com", "www.youtube.com", "m.youtube.com"} THEN "www.youtube.com" ELSE h

\* urllib.parse.unquote: one level of percent-encoding is taken off
unquote(seg) == IF seg.enc > 0 THEN [seg EXCEPT !.enc = @ - 1] ELSE seg

\* the segment reads as this text (an encoded segment reads as "%..")
reads_as(seg, txts) == seg.enc = 0 /\ seg.txt \in txts

\* path.lower().endswith(suf) for one of the suffix pages
ends_with_suffix(path) == Len(path) > 0 /\ reads_as(path[Len(path)], Suffixes)

\* ^/(@[^/]+)(?:/.*)?$
handle_path(path) == Len(path) >= 1 /\ path[1].enc = 0 /\ starts_at(path[1].txt)

\* ^/channel/(UC[0-9A-Za-z_\-]+)(?:/.*)?$
channel_path(path) ==
    Len(path) >= 2 /\ reads_as(path[1], {"channel"}) /\ path[2].enc = 0 /\ uc_like(path[2].txt)

\* ^/(c|user)/([^/]+)(?:/.*)?$
custom_path(path) == Len(path) >= 2 /\ reads_as(path[1], {"c", "user"})

\* _canonicalize_youtube_channel_url on a parsed URL: the path is unquoted
\* once, one suffix page is cut, and the path is cut down to its identifier
\* when it begins with one
canonicalize_parsed(u) ==
    LET unq == [i \in DOMAIN u.path |-> unquote(u.path[i])]
        cut == IF ends_with_suffix(unq) THEN SubSeq(unq, 1, Len(unq) - 1) ELSE unq
        p1 == IF handle_path(cut) THEN SubSeq(cut, 1, 1) ELSE cut
        p2 == IF channel_path(p1) THEN SubSeq(p1, 1, 2) ELSE p1
        p3 == IF custom_path(p2) THEN SubSeq(p2, 1, 2) ELSE p2
    IN  [host |-> netloc(u.host), path |-> p3, query |-> FALSE]

\* canon(u), then canon(canon(u))
Canonicalize ==
    /\ arg \in Urls
    /\ Len(ret) < 2
    /\ ret' = Append(ret, canonicalize_parsed(IF ret = <<>> THEN arg ELSE ret[Len(ret)]))
    /\ UNCHANGED <<arg, lost, engineVars, sendVars, tgt, elapsed, poll_s, ppc, httpVars, instVars, mergeVars>>

InitCanon == InitFn(Urls)

NextCanon == Canonicalize

SpecCanon == InitCanon /\ [][NextCanon]_vars

(***************************************************************************)
(* _targets_semantic_repr of a list and of a reordering of it              *)
(***************************************************************************)
MaxReprLen == 2
ReprLists == UNION {[1..n -> TargetDicts] : n \in 0..MaxReprLen}

\* the list in the order p
Reordered(list, p) == [i \in DOMAIN list |-> list[p[i]]]

\* the representation of the list and that of one of its permutations:
\* ret is <<the permuted list, repr of the list, repr of the permuted list>>
ReprBoth(p) ==
    /\ arg \in ReprLists
    /\ ret = <<>>
    /\ ret' = <<Reordered(arg, p), targets_semantic_repr(arg), targets_semantic_repr(Reordered(arg, p))>>
    /\ UNCHANGED <<arg, lost, engineVars, sendVars, tgt, elapsed, poll_s, ppc, httpVars, instVars, mergeVars>>

InitRepr == InitFn(ReprLists)

NextRepr == \E p \in Permutations(DOMAIN arg) : ReprBoth(p)

SpecRepr == InitRepr /\ [][NextRepr]_vars

(***************************************************************************)
(* _merge_targets item by item: what add_one does to the entries that are  *)
(* already in the merged list                                              *)
(***************************************************************************)
MaxFoldLen == 2
FoldUrls == {"", U_x, U_foo_videos_live}
FoldDicts ==
    {d \in [name : MNames, query : MQueries, handle : MHandles,
             channel_id : MCids, url : FoldUrls] :
        Cardinality({f \in DOMAIN d : d[f] # ""}) <= MaxFields}

\* the items of existing followed by those of new_targets, and the resolved cache
FoldArgs ==
    [items : UNION {[1..n -> FoldDicts] : n \in 0..MaxFoldLen}, resolved : ResolvedChoices]

\* add_one for the next item; ret holds merged and index after every item
AddOne ==
    /\ arg \in FoldArgs
    /\ Len(ret) < Len(arg.items)
    /\ ret' = Append(ret, add_one(arg.resolved,
                                  IF ret = <<>> THEN [merged |-> <<>>, index |-> <<>>]
                                  ELSE ret[Len(ret)],
                                  arg.items[Len(ret) + 1]))
    /\ UNCHANGED <<arg, lost, engineVars, sendVars, tgt, elapsed, poll_s, ppc, httpVars, instVars, mergeVars>>

InitFold == InitFn(FoldArgs)

NextFold == AddOne

SpecFold == InitFold /\ [][NextFold]_vars

(***************************************************************************)
(* Resolving a query to a channel: _score_channel_hit, _pick_best_channel, *)
(* _resolve_channel                                                        *)
(*                                                                         *)
(* Queries and titles are sequences of characters, so that lower(), the    *)
(* split at whitespace and the substring test are computed.                *)
(***************************************************************************)
MaxCands == 2
PickQueries ==
    {<<>>, <<"a">>, <<"a", " ", "B">>, <<" ", "a", " ", " ", "a">>, <<"c">>}
PickTitles ==
    {<<"a">>, <<"A">>, <<"b">>, <<"A", " ", "b">>, <<"b", "a">>, <<"z">>}
CandIds == <<"UCc1", "UCc2", "UCc3">>

\* the (channelId, title) pairs _collect_channel_renderers found, in page order
Candidates ==
    UNION {{[i \in 1..n |-> [cid |-> CandIds[i], title |-> ts[i]]] : ts \in [1..n -> PickTitles]} :
           n \in 0..MaxCands}

\* str.lower()
lower_str(s) ==
    [i \in DOMAIN s |-> IF s[i] = "A" THEN "a" ELSE IF s[i] = "B" THEN "b" ELSE s[i]]

\* s in t
contains(t, s) ==
    \E i \in 0..(Len(t) - Len(s)) : SubSeq(t, i + 1, i + Len(s)) = s

\* re.split(r"\s+", q) without the empty pieces
split_ws(q) ==
    LET F[i \in 0..Len(q)] ==
            IF i = 0 THEN [toks |-> <<>>, tok |-> <<>>]
            ELSE IF q[i] = " "
                 THEN [toks |-> IF F[i - 1].tok = <<>> THEN F[i - 1].toks
                                ELSE Append(F[i - 1].toks, F[i - 1].tok),
                       tok |-> <<>>]
                 ELSE [toks |-> F[i - 1].toks, tok |-> Append(F[i - 1].tok, q[i])]
        end == F[Len(q)]
    IN  IF end.tok = <<>> THEN end.toks ELSE Append(end.toks, end.tok)

\* _score_channel_hit
score_channel_hit(query, title) ==
    LET q == lower_str(query)
        t == lower_str(title)
        toks == split_ws(q)
        hits == Cardinality({i \in DOMAIN toks : contains(t, toks[i])})
    IN  2 * hits + (IF q # <<>> /\ contains(t, q) THEN 5 ELSE 0)

\* _pick_best_channel with "s >= best_score": the last of the best is kept
pick_best_channel_LastSeen(query, candidates) ==
    LET F[i \in 0..Len(candidates)] ==
            IF i = 0 THEN [best |-> <<>>, best_score |-> -1]
            ELSE LET s == score_channel_hit(query, candidates[i].title)
                 IN  IF s >= F[i - 1].best_score
                     THEN [best |-> <<candidates[i]>>, best_score |-> s]
                     ELSE F[i - 1]
    IN  F[Len(candidates)].best

\* _pick_best_channel: <<>> for None, <<candidate>> otherwise
pick_best_channel(query, candidates) ==
    LET F[i \in 0..Len(candidates)] ==
            IF i = 0 THEN [best |-> <<>>, best_score |-> -1]
            ELSE LET s == score_channel_hit(query, candidates[i].title)
                 IN  IF s > F[i - 1].best_score
                     THEN [best |-> <<candidates[i]>>, best_score |-> s]
                     ELSE F[i - 1]
    IN  F[Len(candidates)].best

\* What _resolve_channel meets: the target's query, whether the resolved
\* cache has an entry for it, what the search request gave ("none": no html,
\* "nodata": no ytInitialData in it, "ok") and the candidates of the page
TargetName == <<"z">>
CachedEntry == [channel_id |-> "UCc3", title |-> <<"A">>, url |-> "https://www.youtube.com/channel/UCc3"]
ResolveArgs ==
    [query : PickQueries, candidates : Candidates,
     search : {"none", "nodata", "ok"}, cached : BOOLEAN]

\* self.state["resolved"] before the call
resolved_before(a) ==
    IF a.cached THEN [q \in {a.query} |-> CachedEntry] ELSE <<>>

\* _resolve_channel for a target without channel_id and url: the cache entry
\* if there is one, else the best candidate of the search page, which is
\* stored in the cache and written to STATE_PATH
resolve_channel(a) ==
    LET t == [name |-> TargetName, query |-> a.query, channel_id |-> "", url |-> ""]
        res == resolved_before(a)
        best == pick_best_channel(IF a.query # <<>> THEN a.query ELSE t.name, a.candidates)
    IN  IF a.cached
        THEN [t |-> [t EXCEPT !.channel_id = CachedEntry.channel_id, !.url = CachedEntry.url,
                              !.name = CachedEntry.title],
              resolved |-> res, written |-> FALSE]
        ELSE IF a.search # "ok" \/ best = <<>>
        THEN [t |-> t, resolved |-> res, written |-> FALSE]
        ELSE LET url == "https://www.youtube.com/channel/" \o best[1].cid
                 t2 == [t EXCEPT !.channel_id = best[1].cid, !.url = url, !.name = best[1].title]
             IN  [t |-> t2,
                  resolved |-> [q \in (DOMAIN res) \cup {a.query} |->
                                   IF q = a.query
                                   THEN [channel_id |-> best[1].cid, title |-> t2.name, url |-> url]
                                   ELSE res[q]],
                  written |-> TRUE]

\* the calls that have returned
Called(op) == \E i \in DOMAIN ret : ret[i].op = op
ResultOf(op) == ret[CHOOSE i \in DOMAIN ret : ret[i].op = op]

\* _pick_best_channel(query, candidates)
PickBest ==
    /\ arg \in ResolveArgs
    /\ ~Called("pick")
    /\ ret' = Append(ret, [op |-> "pick", best |-> pick_best_channel(arg.query, arg.candidates)])
    /\ UNCHANGED <<arg, lost, engineVars, sendVars, tgt, elapsed, poll_s, ppc, httpVars, instVars, mergeVars>>

\* _resolve_channel(t)
ResolveChannel ==
    /\ arg \in ResolveArgs
    /\ ~Called("resolve")
    /\ ret' = Append(ret, [op |-> "resolve", out |-> resolve_channel(arg)])
    /\ UNCHANGED <<arg, lost, engineVars, sendVars, tgt, elapsed, poll_s, ppc, httpVars, instVars, mergeVars>>

InitResolve == InitFn(ResolveArgs)

NextResolve ==
    \/ PickBest
    \/ ResolveChannel

SpecResolve == InitResolve /\ [][NextResolve]_vars

(***************************************************************************)
(* Liveness of a player response: _yt_live_info                            *)
(***************************************************************************)
\* times in whole units; datetime.now() is Now
MaxTime == 2
Now == 1
NoTs == -1

\* what _yt_live_info reads of the player response: isLiveNow of
\* liveBroadcastDetails ("absent" when the key is missing), its start and end
\* timestamps (NoTs when missing or not parseable), and whether
\* streamingData has an hlsManifestUrl
Players ==
    [isLiveNow : {"absent", "true", "false"},
     startTimestamp : {NoTs} \cup 0..MaxTime,
     endTimestamp : {NoTs} \cup 0..MaxTime,
     hlsManifestUrl : BOOLEAN]

\* is_live_now of _yt_live_info
yt_live_info(player) ==
    LET start_ts == player.startTimestamp
        end_ts == player.endTimestamp
        from_details ==
            IF player.isLiveNow # "absent" THEN player.isLiveNow = "true"
            ELSE start_ts # NoTs /\ start_ts <= Now /\ (end_ts = NoTs \/ end_ts > Now)
    IN  IF ~from_details THEN player.hlsManifestUrl ELSE TRUE

\* _yt_live_info(player)
LiveInfo ==
    /\ arg \in Players
    /\ ret = <<>>
    /\ ret' = <<yt_live_info(arg)>>
    /\ UNCHANGED <<arg, lost, engineVars, sendVars, tgt, elapsed, poll_s, ppc, httpVars, instVars, mergeVars>>

InitLive == InitFn(Players)

NextLive == LiveInfo

SpecLive == InitLive /\ [][NextLive]_vars

(***************************************************************************)
(* The creator name of an announcement: the name part of _check_live and   *)
(* the loop's test of it, for a video that is live and passes the title    *)
(* whitelist                                                               *)
(***************************************************************************)
\* names a target, a player response or a lookup can hold: none, a handle, a
\* channel id, a channel URL, a display name
TargetNames == {"", "@x", UC1, U_x, "A"}
FoundNames == {"", "@x", "A"}

\* The target as _resolve_channel returned it (base_url() is not None), the
\* ownerChannelName / author of the player response, what the first name
\* lookup gave (resolved cache, else oEmbed of the channel), what the second
\* gave (resolved cache, else oEmbed of the watch URL, else the channel page)
\* and the entry of yt_channel_name_cache for the channel id
NameArgs ==
    {a \in [name : TargetNames, query : {"", "@x", U_x, "A"}, handle : {"", "@x"},
            channel_id : {"", UC1}, url : {"", U_x},
            player_name : {"", "@x", "A"}, lookup1 : FoundNames, lookup2 : FoundNames,
            cached_name : FoundNames] :
        a.url # "" \/ a.handle # "" \/ a.channel_id # ""}

\* nm and not nm.startswith("@") and not _UC_ID_LIKE_RE.match(nm)
good_name(nm) == nm # "" /\ ~starts_at(nm) /\ ~uc_like(nm)

\* creator_name as _check_live returns it
creator_name_of(a) ==
    LET need_name == starts_at(a.name) \/ (a.handle # "" /\ a.name = a.handle)
        name1 == IF need_name /\ a.lookup1 # "" THEN a.lookup1 ELSE a.name
        name2 == IF good_name(a.player_name) THEN a.player_name ELSE name1
        need_name2 == ~good_name(name2) \/ (a.handle # "" /\ name2 = a.handle)
        t_name == IF need_name2 /\ a.lookup2 # "" THEN a.lookup2 ELSE name2
        c1 == IF ~good_name(t_name) /\ good_name(a.player_name) THEN a.player_name ELSE t_name
        c2 == IF a.channel_id # "" /\ (starts_at(c1) \/ uc_like(c1)) /\ good_name(a.cached_name)
              THEN a.cached_name ELSE c1
        c3 == IF starts_at(c2) \/ uc_like(c2) THEN "" ELSE c2
        cand_nm == IF t_name # "" THEN t_name ELSE a.query
    IN  IF c3 = "" /\ good_name(cand_nm) THEN cand_nm ELSE c3

\* _check_live returned a detection
CheckLiveName ==
    /\ arg \in NameArgs
    /\ ret = <<>>
    /\ ret' = <<[op |-> "check_live", creator_name |-> creator_name_of(arg)]>>
    /\ UNCHANGED <<arg, lost, engineVars, sendVars, tgt, elapsed, poll_s, ppc, httpVars, instVars, mergeVars>>

\* the loop handles the detection: "if not creator_name: continue", else
\* _post renders the message with creator_name
LoopName ==
    /\ arg \in NameArgs
    /\ Len(ret) = 1
    /\ ret' = Append(ret, [op |-> IF ret[1].creator_name = "" THEN "skip" ELSE "post",
                           creator_name |-> ret[1].creator_name])
    /\ UNCHANGED <<arg, lost, engineVars, sendVars, tgt, elapsed, poll_s, ppc, httpVars, instVars, mergeVars>>

InitName == InitFn(NameArgs)

NextName ==
    \/ CheckLiveName
    \/ LoopName

SpecName == InitName /\ [][NextName]_vars

(***************************************************************************)
(* The announce engine with a state file that cannot always be written     *)
(***************************************************************************)
\* the storage fails, or works again; when it works again, the ids that
\* memory holds and the file lacks are noted
FsToggle ==
    /\ fs_ok' = ~fs_ok
    /\ lost' = IF fs_ok THEN lost
               ELSE lost \cup UNION {state[c].announced_vids \ disk.announced_vids : c \in loops}
    /\ UNCHANGED <<hist_ok, disk, history, inflight, cogVars, pipeVars>>
    /\ UNCHANGED <<cfgVars, ghostVars, tgt, elapsed, poll_s, ppc, httpVars, instVars, mergeVars, arg, ret>>

NextDisk ==
    \/ LoopSteps(Results)
    \/ WorkerSteps
    \/ FsToggle

SpecDisk == Init /\ [][NextDisk]_vars

(***************************************************************************)
(* The announcement text: _render_template                                 *)
(*                                                                         *)
(* A text is a sequence of pieces: a placeholder or a word.                *)
(***************************************************************************)
MaxTplLen == 4
P_name == "{creator.name}"
P_title == "{video.title}"
P_link == "{video.link}"
Templates == UNION {[1..n -> {"hi", P_name, P_title, P_link}] : n \in 0..MaxTplLen}

\* self.template and the three arguments; a channel name or a video title is
\* whatever the channel owner typed
RenderArgs ==
    [template : Templates,
     creator_name : {<<"Alice">>, <<P_title>>},
     video_title : {<<"T">>, <<P_link>>, <<P_name>>},
     video_link : {<<"L">>}]

\* str.replace(old, new)
replace(msg, old, new) ==
    LET F[i \in 0..Len(msg)] ==
            IF i = 0 THEN <<>>
            ELSE F[i - 1] \o (IF msg[i] = old THEN new ELSE <<msg[i]>>)
    IN  F[Len(msg)]

\* _render_template: three replacements, one after the other
render_template(a) ==
    replace(replace(replace(a.template, P_name, a.creator_name),
                    P_title, a.video_title),
            P_link, a.video_link)

\* _render_template(creator_name, video_title, video_link)
Render ==
    /\ arg \in RenderArgs
    /\ ret = <<>>
    /\ ret' = <<render_template(arg)>>
    /\ UNCHANGED <<arg, lost, engineVars, sendVars, tgt, elapsed, poll_s, ppc, httpVars, instVars, mergeVars>>

InitRender == InitFn(RenderArgs)

NextRender == Render

SpecRender == InitRender /\ [][NextRender]_vars

(***************************************************************************)
(* Specification of a failed send and the passes after it                  *)
(***************************************************************************)
\* One lifetime in which every detection is fresh and named: nothing is
\* suppressed, nobody else posts, the history is readable and empty at boot.
FreshResults ==
    {r \in Results : r.start_ts = "fresh" /\ r.creator_name = "name"}

\* loop, "except Exception as e" around _post: the send of cog c for video v
\* has failed and the error is about to reach the loop
SendRaised(c, v) ==
    /\ c \in loops
    /\ pc[c] = "send_wait"
    /\ fut[c] = "exc"
    /\ cur[c].vid = v

\* the video ids whose send has raised into the loop (ret is their log)
Raised == Range(ret)

\* _send_queued returns into _post and the loop; a send error is logged
SendReturnedLogged(c) ==
    /\ SendReturnedCore(c)
    /\ ret' = IF fut[c] = "exc" /\ cur[c].vid \notin Raised
              THEN Append(ret, cur[c].vid) ELSE ret
    /\ UNCHANGED <<arg, lost, cfgVars, envVars, ghostVars, tgt, elapsed, poll_s, ppc,
                   httpVars, instVars, mergeVars>>

NextRetry ==
    \/ \E c \in loops, en \in BOOLEAN, chan \in BOOLEAN : BeforeLoop(c, en, chan)
    \/ \E c \in loops, en \in BOOLEAN, chan \in BOOLEAN : LoopBegin(c, en, chan)
    \/ \E c \in loops : LoopEnd(c)
    \/ \E c \in loops, r \in FreshResults : Gate(c, r)
    \/ \E c \in loops : LoopHistory(c)
    \/ \E c \in loops : PostHistory(c)
    \/ \E c \in loops : SendReturnedLogged(c)
    \/ \E c \in loops : Cleanup(c)
    \/ WorkerSteps

SpecRetry == Init /\ [][NextRetry]_vars

(***************************************************************************)
(* The delivery pipeline with its worker task scheduled                    *)
(***************************************************************************)
\* the requests that are on the queue of cog c or in the hands of its worker
Held(c) ==
    {queue[c][i].id : i \in DOMAIN queue[c]}
        \cup (IF witem[c] = NoResult THEN {} ELSE {witem[c].id})

\* The event loop keeps running the worker task of the cog: time passes, a
\* queue.get() with a request on the queue returns, and channel.send returns
\* or raises.
FairSend ==
    /\ WF_vars(Tick)
    /\ WF_vars(WorkerGet(1))
    /\ WF_vars(SendOk(1) \/ \E cf \in BOOLEAN : SendFail(1, cf))

SpecSendLive == SpecSend /\ FairSend

(***************************************************************************)
(* _merge_targets on targets of different channels                         *)
(***************************************************************************)
MaxChanLen == 2

\* targets with up to two channel ids and two handles that differ after
\* norm_handle, with and without a display name and a url
ChanDicts ==
    [name : {"", "A"}, query : {""}, handle : {"", "@x", "@y"},
     channel_id : {"", UC1, UC2}, url : {"", U_x}]
ChanLists == UNION {[1..n -> ChanDicts] : n \in 1..MaxChanLen}

\* the non-empty values of field f in a list of dicts
Carried(l, f) == {l[i][f] : i \in DOMAIN l} \ {""}

\* merged of _merge_targets([], arg) with an empty resolved cache
MergeChannels ==
    /\ arg \in ChanLists
    /\ ret = <<>>
    /\ ret' = <<merge_targets(<<>>, <<>>, arg)>>
    /\ UNCHANGED <<arg, lost, engineVars, sendVars, tgt, elapsed, poll_s, ppc, httpVars, instVars, mergeVars>>

InitChannels == InitFn(ChanLists)

NextChannels == MergeChannels

SpecChannels == InitChannels /\ [][NextChannels]_vars

(***************************************************************************)
(* Loading the watchlist: _reload_watchlist                                *)
(***************************************************************************)
MaxWatchLen == 2

\* a query that is a search text: no handle, no channel id, no url
Q_text == "some channel"

\* the "targets" of the watchlist file and the resolved cache
WatchDicts ==
    [name : {"", "A"}, query : {"", "@x", Q_text}, handle : {"", "@x"},
     channel_id : {"", UC1}, url : {"", U_X_videos}]
WatchArgs ==
    [items : UNION {[1..n -> WatchDicts] : n \in 1..MaxWatchLen},
     resolved : ResolvedChoices]

\* the Target invariant: one of handle, channel_id, url, query is not empty
TargetInvariant(t) ==
    t.handle # "" \/ t.channel_id # "" \/ t.url # "" \/ t.query # ""

\* _reload_watchlist: name.strip() without a leading "@"
name_strip(nm) == IF nm = "@x" THEN "x" ELSE nm

\* _reload_watchlist: the test before the "continue"
Skipped(t) ==
    name_strip(t.name) = "" /\ t.handle = "" /\ t.channel_id = "" /\ t.url = ""

\* _reload_watchlist: the Target made of a dict of the merged list
AsTarget(t) ==
    LET name == name_strip(t.name) IN
    Target(name,
           IF t.query # "" THEN t.query
           ELSE IF t.handle # "" THEN t.handle
           ELSE IF t.channel_id # "" THEN t.channel_id ELSE name,
           t.handle, t.channel_id, canonicalize_youtube_channel_url(t.url))

\* _reload_watchlist: self.targets for the watchlist targets raw
reload_watchlist(res, raw) ==
    LET tlist == merge_targets(res, <<>>, raw)
        F[i \in 0..Len(tlist)] ==
            IF i = 0 THEN <<>>
            ELSE IF Skipped(tlist[i]) THEN F[i - 1]
            ELSE Append(F[i - 1], AsTarget(tlist[i]))
    IN  F[Len(tlist)]

\* the entry e of the watchlist is in the working set ts: a target has its
\* query, its handle, its channel id or its url
InWorkingSet(e, ts) ==
    \E i \in DOMAIN ts :
        \/ e.query # "" /\ ts[i].query = e.query
        \/ e.handle # "" /\ ts[i].handle = e.handle
        \/ e.channel_id # "" /\ ts[i].channel_id = e.channel_id
        \/ e.url # "" /\ ts[i].url = canonicalize_youtube_channel_url(e.url)

ReloadWatchlist ==
    /\ arg \in WatchArgs
    /\ ret = <<>>
    /\ ret' = <<reload_watchlist(arg.resolved, arg.items)>>
    /\ UNCHANGED <<arg, lost, engineVars, sendVars, tgt, elapsed, poll_s, ppc, httpVars, instVars, mergeVars>>

InitWatch == InitFn(WatchArgs)

NextWatch == ReloadWatchlist

SpecWatch == InitWatch /\ [][NextWatch]_vars

(***************************************************************************)
(* The resolution cache state["resolved"]: what _resolve_channel and       *)
(* _check_live write into it, pass after pass                              *)
(***************************************************************************)
\* The values of the cache: the dict {"channel_id", "title", "url"}, a plain
\* string, and the dict of strings under "url_to_name".
Dict(cid, title, url) == [channel_id |-> cid, title |-> title, url |-> url]
Str(s) == [str |-> s]
Map(f) == [map |-> f]
IsDict(v) == DOMAIN v = {"channel_id", "title", "url"}

\* res[k] = v for every k of ks; res.setdefault(k, v) for every k of ks
PutAll(res, ks, v) ==
    [k \in (DOMAIN res) \cup ks |-> IF k \in ks THEN v ELSE res[k]]
SetDefaultAll(res, ks, v) ==
    [k \in (DOMAIN res) \cup ks |-> IF k \in DOMAIN res THEN res[k] ELSE v]

\* The working set: a target added by its handle and one added by its
\* channel id (name empty until a display name is found).
CacheTargets == {Target("", "@x", "@x", "", ""), Target("", UC1, "", UC1, "")}

\* What the network gives one call of _check_live: the channel the search
\* page gives for the query ("" for none) and its title, the name of the
\* channel oEmbed, whether the /live page has a player response ("fast"), only
\* a video id ("fallback") or could not be read ("nohtml"), the
\* ownerChannelName of the player response, whether the video is live, and the
\* name of the watch-URL oEmbed.
CheckInputs ==
    [search : {"", UC1}, title : {"", "A"}, lookup1 : {"", "A", "B"},
     path : {"nohtml", "fast", "fallback"}, player_name : {"", "A", "B", "@x"},
     live : BOOLEAN, lookup2 : {"", "A"}]

\* the first of the keys ks (a sequence) that the cache has, "" for none
FirstKey(res, ks) ==
    LET hits == {i \in DOMAIN ks : ks[i] \in DOMAIN res}
    IN  IF hits = {} THEN "" ELSE ks[CHOOSE i \in hits : \A j \in hits : i <= j]

\* _resolve_channel: the target and the cache after the call
cache_resolve(res, t, in) ==
    IF t.channel_id # "" \/ t.url # "" THEN [t |-> t, res |-> res]
    ELSE
    LET k == FirstKey(res, <<t.handle, t.url, t.channel_id, t.query, t.name>>)
        hit == k # "" /\ IsDict(res[k])
        t1 == IF hit
              THEN [t EXCEPT !.channel_id = IF res[k].channel_id # "" THEN res[k].channel_id ELSE @,
                             !.url = IF res[k].url # "" THEN res[k].url ELSE @,
                             !.name = IF res[k].title # "" THEN res[k].title ELSE @]
              ELSE t
    IN  IF t1.channel_id # "" \/ t1.url # "" THEN [t |-> t1, res |-> res]
        ELSE IF in.search = "" THEN [t |-> t1, res |-> res]
        ELSE LET url == "https://www.youtube.com/channel/" \o in.search
                 t2 == [t1 EXCEPT !.channel_id = in.search, !.url = url,
                                  !.name = IF in.title # "" THEN in.title ELSE @]
             IN  [t |-> t2,
                  res |-> PutAll(res, {t2.query}, Dict(in.search, t2.name, url))]

\* _check_live, the first name block (a handle as name)
cache_name1(res, t, in) ==
    LET base == IF t.url # "" THEN t.url ELSE base_url(t)
        need == starts_at(t.name) \/ (t.handle # "" /\ t.name = t.handle)
        k == FirstKey(res, <<t.handle, t.query, t.name>>)
        cached == IF k # "" /\ IsDict(res[k]) THEN res[k].title ELSE ""
        nm == IF cached # "" THEN cached ELSE in.lookup1
    IN  IF ~need \/ nm = "" THEN [t |-> t, res |-> res]
        ELSE LET t1 == [t EXCEPT !.name = nm]
                 d == Dict(t1.channel_id, nm, base)
             IN  [t |-> t1,
                  res |-> SetDefaultAll(PutAll(res, {t1.handle} \ {""}, d),
                                        {t1.query} \ {""}, d)]

\* _check_live, the name of the player response: the fast path stores dicts
\* with setdefault, the fallback path stores the name itself
cache_player(res, t, in) ==
    LET base == IF t.url # "" THEN t.url ELSE base_url(t)
        nm0 == in.player_name
        t1 == [t EXCEPT !.name = nm0]
        ks == {t1.channel_id, base, t1.handle, t1.query, t1.name} \ {""}
    IN  IF ~good_name(nm0) \/ (in.path = "fallback" /\ ~in.live) THEN [t |-> t, res |-> res]
        ELSE IF in.path = "fast"
        THEN [t |-> t1, res |-> SetDefaultAll(res, ks, Dict(t1.channel_id, nm0, base))]
        ELSE LET r1 == PutAll(res, ks, Str(nm0))
                 old == IF "url_to_name" \in DOMAIN r1 THEN r1["url_to_name"].map ELSE <<>>
             IN  [t |-> t1,
                  res |-> PutAll(r1, {"url_to_name"},
                                 Map([u \in (DOMAIN old) \cup {base} |->
                                        IF u = base THEN nm0 ELSE old[u]]))]

\* _check_live, the second name block (no name, a handle or a channel id)
cache_name2(res, t, in) ==
    LET base == IF t.url # "" THEN t.url ELSE base_url(t)
        need == t.name = "" \/ starts_at(t.name) \/ uc_like(t.name)
                    \/ (t.handle # "" /\ t.name = t.handle)
        ks == <<t.channel_id, base, t.handle, t.query, t.name>>
        good == {i \in DOMAIN ks : /\ ks[i] # "" /\ ks[i] \in DOMAIN res
                                   /\ IsDict(res[ks[i]]) /\ good_name(res[ks[i]].title)}
        nm == IF good # {} THEN res[ks[CHOOSE i \in good : \A j \in good : i <= j]].title
              ELSE in.lookup2
    IN  IF ~need \/ nm = "" THEN res
        ELSE PutAll(res, {t.channel_id, base, t.handle, t.query} \ {""},
                    Dict(t.channel_id, nm, base))

\* _check_live: the cache after the call
check_live_cache(res, t, in) ==
    LET a == cache_resolve(res, t, in) IN
    IF base_url(a.t) = "" THEN a.res
    ELSE LET b == cache_name1(a.res, a.t, in) IN
         IF in.path = "nohtml" THEN b.res
         ELSE LET c == cache_player(b.res, b.t, in) IN
              IF ~in.live THEN c.res
              ELSE cache_name2(c.res, c.t, in)

\* state["resolved"]: ret holds the cache once a call has written it
Resolved == IF ret = <<>> THEN <<>> ELSE ret[1]

\* the identifiers a cache entry may be keyed by: the queries, handles, urls
\* and channel ids of the targets (resolved ones included)
IdKeys ==
    {"@x", UC1, U_x, "https://www.youtube.com/channel/" \o UC1}

\* one call of _check_live(t) of a pass
CheckLiveCache(t, in) ==
    /\ arg = "empty"
    /\ ret' = <<check_live_cache(Resolved, t, in)>>
    /\ UNCHANGED <<arg, lost, engineVars, sendVars, tgt, elapsed, poll_s, ppc, httpVars, instVars, mergeVars>>

InitCache == InitFn({"empty"})

NextCache == \E t \in CacheTargets, in \in CheckInputs : CheckLiveCache(t, in)

SpecCache == InitCache /\ [][NextCache]_vars

(***************************************************************************)
(* Properties                                                              *)
(***************************************************************************)
\* a request for vid is on the send queue of c or in the hands of its worker
Requested(c, vid) ==
    \/ \E i \in DOMAIN queue[c] : queue[c][i].vid = vid
    \/ witem[c] # NoResult /\ witem[c].vid = vid

\* the announced map holds vid under every alias key of t
KeysAligned(c, t, vid) ==
    \A k \in AliasKeys(t) : k \in DOMAIN state[c].announced /\ state[c].announced[k] = vid

\* C1: within one lifetime of the process a message for a video id is
\* delivered at most once, and once the id is in announced_vids no request to
\* send it is queued or being sent, whichever target identity detected it.
C1_AtMostOneSend ==
    \A c \in loops, v \in Vids :
        /\ sent[c][v] <= 1
        /\ v \in state[c].announced_vids => ~Requested(c, v)

\* v1 was delivered once, announced under the handle identity and detected
\* again under the resolved identity
C1_Witness ==
    /\ sent[1]["v1"] = 1
    /\ "v1" \in state[1].announced_vids
    /\ KeysAligned(1, T_handle, "v1")
    /\ KeysAligned(1, T_resolved, "v1")

\* C2: in a lifetime that loaded a state with a video id in announced_vids, no
\* request to send that id is ever queued and no message for it is delivered.
C2_LoadedNeverSent ==
    \A c \in loops : \A v \in loaded[c] :
        sent[c][v] = 0 /\ ~Requested(c, v)

\* v1 was loaded from the file and then detected under the resolved identity,
\* which the file does not know yet
C2_Witness ==
    /\ "v1" \in loaded[1]
    /\ KeysAligned(1, T_resolved, "v1")
    /\ "UC1" \notin DOMAIN disk.announced
    /\ sent[1]["v1"] = 0

\* the channel holds a message of this bot for vid
MineInChannel(vid) ==
    \E i \in DOMAIN history : history[i].author = Me /\ history[i].vid = vid

\* the handler of c leaves the post step and the loop goes on
PostStepEnds(c) ==
    /\ pc[c] \in {"post_hist", "send_wait", "cleanup"}
    /\ pc'[c] = "results"

\* C3 as stated: a fresh, named detection that meets no cooldown ends with
\* exactly one delivered message and with the id in announced_vids.
C3_AlwaysOneSend ==
    [][\A c \in loops :
          PostStepEnds(c) /\ ~CooldownActive(c) =>
              /\ sent'[c][cur[c].vid] = 1
              /\ cur[c].vid \in state'[c].announced_vids]_vars

\* C3: a fresh, named detection that meets no cooldown and no message of this
\* bot for the id in the channel puts exactly one request on the send queue;
\* when channel.send returns the message, exactly one message was delivered
\* and the id is recorded in announced_vids; once the id is recorded, no step
\* queues or delivers it again.
C3_OneSendThenNone ==
    [][\A c \in loops :
          /\ ( /\ pc[c] = "post_hist"
               /\ pc'[c] \notin {"post_hist", "stopped"}
               /\ ~CooldownActive(c)
               /\ ~MineInChannel(cur[c].vid) )
             => /\ pc'[c] = "send_wait"
                /\ queue'[c] = <<[id |-> c, vid |-> cur[c].vid]>>
          /\ (pc[c] = "cleanup" /\ pc'[c] = "results")
             => /\ sent'[c][cur[c].vid] = 1
                /\ cur[c].vid \in state'[c].announced_vids
          /\ \A v \in state[c].announced_vids :
                /\ sent'[c][v] = sent[c][v]
                /\ \A i \in DOMAIN queue'[c] : queue'[c][i].vid # v]_vars

\* v1 went through the send once, is recorded, and the loop is in a pass
C3_Witness ==
    /\ pc[1] = "results"
    /\ sent[1]["v1"] = 1
    /\ "v1" \in state[1].announced_vids
    /\ "v1" \in cache[1]
    /\ cool_left[1] = 0

MineNewest(vid) ==
    /\ history # <<>>
    /\ history[Len(history)] = Msg(Me, vid)

HandlerSteps(c) ==
    /\ <<pc[c], cache_ready[c]>>' # <<pc[c], cache_ready[c]>>
    /\ pc'[c] # "stopped"

\* C5: when the handler of a detection is at a history check, the history can
\* be read and the scanned window holds a message of this bot for the video
\* id, the handler ends without queueing or delivering anything, the id is in
\* announced_vids, every alias key of the target maps to it, and the state
\* file holds the new state.
C5_FoundInHistory ==
    [][\A c \in loops :
          ( /\ pc[c] \in {"hist", "post_hist"}
            /\ hist_ok
            /\ MineNewest(cur[c].vid)
            /\ HandlerSteps(c) )
          => /\ pc'[c] = "results"
             /\ queue'[c] = queue[c]
             /\ sent' = sent
             /\ cur[c].vid \in state'[c].announced_vids
             /\ \A k \in AliasKeys(cur[c].t) :
                    /\ k \in DOMAIN state'[c].announced
                    /\ state'[c].announced[k] = cur[c].vid
             /\ fs_ok => disk' = state'[c]]_vars

\* the handler for v1 is inside _post, before its history check, and another
\* instance of this bot has posted v1 in the meantime
C5_Witness ==
    /\ pc[1] = "post_hist"
    /\ cur[1].vid = "v1"
    /\ cur[1].t = T_resolved
    /\ hist_ok
    /\ MineNewest("v1")
    /\ sent[1]["v1"] = 0

\* the cogs whose handler is inside the post step for vid: between the entry
\* into the in-flight set and the end of the finally block
Posting(vid) ==
    {c \in loops : pc[c] \in {"post_hist", "send_wait", "cleanup"} /\ cur[c].vid = vid}

\* C6: at most one handler is inside the post step for a video id, and a
\* handler that reaches the in-flight guard while the id is in the set ends
\* there: the set, the send queues and the delivery counts stay as they are.
C6_OneInPostStep ==
    /\ [](\A v \in Vids : Cardinality(Posting(v)) <= 1)
    /\ [][\A c \in loops :
             ( /\ pc[c] = "hist"
               /\ cache_ready[c]
               /\ cur[c].vid \in inflight
               /\ HandlerSteps(c) )
             => /\ pc'[c] = "results"
                /\ inflight' = inflight
                /\ queue' = queue
                /\ sent' = sent]_vars

\* both loops passed the hard de-dupe for v1; the first is awaiting its send,
\* the second is about to reach the in-flight guard
C6_Witness ==
    /\ pc[1] = "send_wait" /\ cur[1].vid = "v1"
    /\ pc[2] = "hist" /\ cur[2].vid = "v1"
    /\ cache_ready[2]
    /\ "v1" \in inflight

\* C7: the in-flight set holds exactly the video ids whose post step is in
\* progress, after a normal return, a send exception and a cancellation alike.
C7_InflightIsPosting ==
    inflight = {v \in Vids : Posting(v) # {}}

\* the first loop was cancelled while it awaited its send and released v1,
\* which the second loop is now posting
C7_Witness ==
    /\ pc[1] = "stopped" /\ fut[1] = "pending"
    /\ pc[2] = "send_wait" /\ cur[2].vid = "v1"
    /\ inflight = {"v1"}

\* C8 as stated: a channel.send starts no earlier than the throttle interval
\* after the previous channel.send ended, whether it returned or raised.
\* (One worker task per cog takes the requests one by one, so no two sends of
\* a cog overlap.)
C8_ThrottleAfterEverySend ==
    \A c \in loops :
        wpc[c] = "sending" => since_done[c] >= DISCORD_SEND_THROTTLE_SECONDS

\* a channel.send is in progress right after the previous one raised
C8_Witness ==
    /\ wpc[1] = "sending"
    /\ since_done[1] = 0
    /\ since_last[1] >= DISCORD_SEND_THROTTLE_SECONDS
    /\ sent[1] = [v \in Vids |-> 0]

\* C9: while the cooldown is on, the worker neither sleeps towards a send nor
\* sends, and nothing is delivered; a call of _send_queued made during the
\* cooldown returns None and leaves the queue as it is; the step that engages
\* the cooldown empties the queue.
C9_CooldownBlocksSends ==
    /\ [](\A c \in loops : CooldownActive(c) => wpc[c] \notin {"sleep", "sending"})
    /\ [][\A c \in loops :
             /\ CooldownActive(c) =>
                    /\ sent' = sent
                    /\ \A i \in DOMAIN queue'[c] :
                           \E j \in DOMAIN queue[c] : queue'[c][i] = queue[c][j]
                    /\ \A r \in ReqIds :
                           fut[r] = "none" /\ fut'[r] # "none" => fut'[r] = "nomsg"
             /\ (~CooldownActive(c) /\ cool_left'[c] > 0) => queue'[c] = <<>>]_vars

\* the send of request 1 failed with the signature while requests 2 and 3
\* were queued: the cooldown is on and the queue is empty
C9_Witness ==
    /\ cool_left[1] > 0
    /\ fut[1] = "exc"
    /\ fut[2] = "pending" /\ fut[3] = "pending"
    /\ queue[1] = <<>>
    /\ wpc[1] = "get"

C11_LoopNeverDies ==
    ppc # "dead"

\* the watchlist of a later pass is empty and the loop task has ended
C11_Witness ==
    /\ ppc = "dead"
    /\ tgt = <<>>
    /\ poll_s = POLL_SECONDS

\* C12: a detection that ends in an exception or is cut off by its timeout
\* changes the state of its own task only and leaves the pass running; a
\* collected result stays until it is handled; and when the pass is over
\* every task has either had its result handled or contributed none.
C12_FailuresAreLocal ==
    /\ [](ppc = "sleep" =>
             \A i \in Tasks : tgt[i].st \in {"handled", "none", "cut", "cancelled"})
    /\ [][\A i \in Tasks :
             /\ (tgt[i].st = "running" /\ tgt'[i].st \in {"none", "cut"})
                => /\ ppc' = ppc
                   /\ \A j \in Tasks \ {i} : tgt'[j] = tgt[j]
             /\ tgt[i].st = "result" => tgt'[i].st \in {"result", "handled"}]_vars

\* the detection of the first target failed, the result of the second was
\* handled, and the pass is over
C12_Witness ==
    /\ ppc = "sleep"
    /\ tgt = <<[kind |-> "returns", st |-> "none"], [kind |-> "returns", st |-> "handled"]>>

\* C13: with a positive max age, a video detected with a start time older than
\* the max age is never sent and never gets past the suppress branch; the
\* step that handles such a result leaves its id in announced_vids and every
\* alias key of the target pointing at it, and when it is the first handling
\* of the id the file holds the same state after the step.
C13_StaleSuppressed ==
    /\ [](\A c \in loops :
             /\ sent[c][StaleVid] = 0
             /\ ~Requested(c, StaleVid)
             /\ cur[c] # NoResult => cur[c].vid # StaleVid)
    /\ [][\A c \in loops : \A r \in StaleResults :
             (ANNOUNCE_MAX_AGE_MINUTES > 0 /\ r.start_ts = "stale" /\ Gate(c, r))
                => /\ r.vid \in state'[c].announced_vids
                   /\ \A k \in AliasKeys(r.t) :
                         k \in DOMAIN state'[c].announced /\ state'[c].announced[k] = r.vid
                   /\ ~AlreadyAnnounced(c, r.vid)
                        => /\ disk' = state'[c]
                           /\ r.vid \in disk'.announced_vids]_vars

\* the stale video is recorded in memory and in the file, nothing was sent,
\* and the loop is back between two passes
C13_Witness ==
    /\ pc[1] = "idle"
    /\ StaleVid \in state[1].announced_vids
    /\ StaleVid \in disk.announced_vids
    /\ KeysAligned(1, T_resolved, StaleVid)
    /\ sent[1][StaleVid] = 0

\* the state of c after the step holds vid in announced_vids and under every
\* alias key of t
RecordedAfter(c, t, vid) ==
    /\ vid \in state'[c].announced_vids
    /\ \A k \in AliasKeys(t) :
          k \in DOMAIN state'[c].announced /\ state'[c].announced[k] = vid

\* C14: the step that ends a handler after its message was delivered, and
\* the step that takes a suppress branch for a result, leave the video id in
\* announced_vids and under every alias key of the target in announced.
C14_RecordedAfterDecision ==
    [][\A c \in loops :
          /\ (pc[c] = "cleanup" /\ pc'[c] = "results")
                => RecordedAfter(c, cur[c].t, cur[c].vid)
          /\ (pc[c] = "results" /\ UNCHANGED <<pc, history, pipeVars>>)
                => \A r \in Results :
                     (Suppressed(r) /\ Gate(c, r)) => RecordedAfter(c, r.t, r.vid)]_vars

\* v2 was delivered for the handle target and is recorded under all its
\* keys; v1 was recorded earlier without a delivery
C14_Witness ==
    /\ sent[1]["v2"] = 1
    /\ "v2" \in state[1].announced_vids
    /\ KeysAligned(1, T_handle, "v2")
    /\ "v1" \in state[1].announced_vids
    /\ sent[1]["v1"] = 0
    /\ queue[1] = <<>>

\* C15 as stated: with no failing write, a step of the loop that changes the
\* announce state in memory leaves the same state in the file, and between
\* two passes the file holds the state in memory.
C15_PersistedAtPassEnd ==
    /\ [](\A c \in loops : (fs_ok /\ pc[c] = "idle") => disk = state[c])
    /\ [][\A c \in loops : (fs_ok /\ state'[c] # state[c]) => disk' = state'[c]]_vars

\* between two passes the memory maps the channel id to v1 and the file,
\* written when v1 was recorded for the handle target, does not
C15_Witness ==
    /\ pc[1] = "idle"
    /\ fs_ok
    /\ "v1" \in disk.announced_vids
    /\ KeysAligned(1, T_resolved, "v1")
    /\ "UC1" \notin DOMAIN disk.announced

\* C16 as stated: the number of open HTTP requests of the detection fan-out
\* never exceeds the concurrency limit.
C16_OpenWithinLimit == Cardinality(Open) <= SemSize

\* the semaphore is fully taken by page requests and a display-name lookup
\* is open next to them
C16_Witness ==
    /\ Cardinality(Holding) = SemSize
    /\ \E i \in Open : Stages[http[i].k] = "name"

\* h without every message of this bot that has a video id and comes after
\* another message of this bot with the same id
OldestPerVideo(h) ==
    Keep(h, {i \in DOMAIN h :
                ~ /\ h[i].author = Me
                  /\ h[i].vid # NoVid
                  /\ \E j \in DOMAIN h : j < i /\ h[j] = h[i]})

AllCleanedUp == \A p \in Instances : inst[p].ph = "done"

\* the channel holds one message for the video, the one posted first
OnlyOldestLeft ==
    \E i \in DOMAIN history :
        /\ Mine(history, RaceVid) = {i}
        /\ history[i].id = oldest

C20_MergeIdempotent ==
    (m_once.done /\ m_twice.done)
        => targets_semantic_repr(m_twice.merged) = targets_semantic_repr(m_once.merged)

\* L = (channel id only; handle and url; the same handle with the channel
\* id): the second pass reaches the first dict through the handle and fills
\* in the url, which the single pass leaves empty
C20_Witness ==
    /\ m_in = <<[name |-> "", query |-> "", handle |-> "", channel_id |-> UC1, url |-> ""],
                [name |-> "", query |-> "", handle |-> "@x", channel_id |-> "", url |-> U_x],
                [name |-> "", query |-> "", handle |-> "@x", channel_id |-> UC1, url |-> ""]>>
    /\ m_res = <<>>
    /\ m_once.done
    /\ m_twice.done
    /\ m_once.merged[1].url = ""
    /\ m_twice.merged[1].url = U_x

\* C21 as stated: canonicalizing a channel URL twice gives what canonicalizing
\* it once gives, also for a path with several suffix pages or with
\* percent-encoded characters.
C21_CanonIdempotent ==
    Len(ret) = 2 => ret[2] = ret[1]

\* https://www.youtube.com/foo/videos/live: the first call cuts /live, the
\* second cuts /videos
C21_Witness ==
    /\ arg = [host |-> "www.youtube.com",
              path |-> <<[txt |-> "foo", enc |-> 0], [txt |-> "videos", enc |-> 0], [txt |-> "live", enc |-> 0]>>,
              query |-> FALSE]
    /\ Len(ret) = 2
    /\ ret[1].path = <<[txt |-> "foo", enc |-> 0], [txt |-> "videos", enc |-> 0]>>
    /\ ret[2].path = <<[txt |-> "foo", enc |-> 0]>>

\* C22 as stated: the semantic representation does not depend on the order
\* of the list: every permutation of a list has the representation of the
\* list, also when two targets have the same identity key and normalized
\* name and differ in another field.
C22_ReprOrderIndependent ==
    Len(ret) = 3 => ret[3] = ret[2]

\* two targets with the channel id UC1 and no name, one with a handle:
\* the sort keeps them in the order given
C22_Witness ==
    /\ arg = <<[name |-> "", query |-> "", handle |-> "", channel_id |-> UC1, url |-> ""],
               [name |-> "", query |-> "", handle |-> "@x", channel_id |-> UC1, url |-> ""]>>
    /\ Len(ret) = 3
    /\ ret[1] = <<arg[2], arg[1]>>
    /\ ret[2] # ret[3]

\* two target dicts stand for the same channel by one of their fields
SameChannel(a, b) ==
    \/ a.channel_id # "" /\ a.channel_id = b.channel_id
    \/ norm_handle(a.handle) # "" /\ norm_handle(a.handle) = norm_handle(b.handle)
    \/ /\ a.url # ""
       /\ lower(canonicalize_youtube_channel_url(a.url)) = lower(canonicalize_youtube_channel_url(b.url))
    \/ name_fold(a.name) # "" /\ name_fold(a.name) = name_fold(b.name)

\* C23 as stated: in the list merge returns no two entries alias each other:
\* no two have the same channel id, normalized handle, canonical URL or
\* normalized name.
C23_NoAliasingEntries ==
    m_once.done =>
        \A i \in DOMAIN m_once.merged : \A j \in DOMAIN m_once.merged :
            i < j => ~SameChannel(m_once.merged[i], m_once.merged[j])

\* L = (url only; channel id only; that channel id with that url): the third
\* dict is found under its channel id and gives the second entry the url of
\* the first
C23_Witness ==
    /\ m_in = <<[name |-> "", query |-> "", handle |-> "", channel_id |-> "", url |-> U_x],
                [name |-> "", query |-> "", handle |-> "", channel_id |-> UC1, url |-> ""],
                [name |-> "", query |-> "", handle |-> "", channel_id |-> UC1, url |-> U_x]>>
    /\ m_res = <<>>
    /\ m_once.done
    /\ Len(m_once.merged) = 2
    /\ m_once.merged[1].url = U_x
    /\ m_once.merged[2].url = U_x

\* C24 as stated: folding an item into an entry of the merged list leaves
\* every non-empty query, handle, channel_id and url of the entry as it was,
\* and leaves a name that is not a placeholder as it was.
C24_FoldOnlyFills ==
    \A k \in 1..(Len(ret) - 1) : \A i \in DOMAIN ret[k].merged :
        LET before == ret[k].merged[i]
            after == ret[k + 1].merged[i]
        IN  /\ \A f \in {"query", "handle", "channel_id", "url"} :
                 before[f] # "" => after[f] = before[f]
            /\ ~placeholder(before.name) => after.name = before.name

\* the same dict twice, its url with two suffix pages: the entry is added with
\* /foo/videos, and the fold of the second dict leaves it with /foo
C24_Witness ==
    /\ arg.items = <<[name |-> "A", query |-> "", handle |-> "", channel_id |-> "", url |-> U_foo_videos_live],
                     [name |-> "A", query |-> "", handle |-> "", channel_id |-> "", url |-> U_foo_videos_live]>>
    /\ arg.resolved = <<>>
    /\ Len(ret) = 2
    /\ ret[1].merged[1].url = U_foo_videos
    /\ ret[2].merged = <<[name |-> "A", query |-> "", handle |-> "", channel_id |-> "", url |-> U_foo]>>

\* the whitespace-delimited tokens of a query, by the positions they start at
TokenStarts(q) == {i \in DOMAIN q : q[i] # " " /\ (i = 1 \/ q[i - 1] = " ")}
TokenAt(q, i) ==
    LET last == CHOOSE j \in i..Len(q) :
                    /\ \A k \in i..j : q[k] # " "
                    /\ (j = Len(q) \/ q[j + 1] = " ")
    IN  SubSeq(q, i, last)

\* the score as the specification words it: 2 for every token of the query
\* the title contains, 5 more when the title contains the whole query, case
\* ignored
StatedScore(query, title) ==
    LET q == lower_str(query)
        t == lower_str(title)
    IN  2 * Cardinality({i \in TokenStarts(q) : contains(t, TokenAt(q, i))})
        + (IF contains(t, q) THEN 5 ELSE 0)

\* C25: of the candidates found the resolver picks one with the highest score,
\* and of those with the highest score the one seen first.
C25_PicksFirstOfBest ==
    Called("pick") =>
        LET cs == arg.candidates
            best == ResultOf("pick").best
        IN  IF cs = <<>> THEN best = <<>>
            ELSE \E i \in DOMAIN cs :
                    /\ best = <<cs[i]>>
                    /\ \A j \in DOMAIN cs :
                         StatedScore(arg.query, cs[j].title) <= StatedScore(arg.query, cs[i].title)
                    /\ \A j \in 1..(i - 1) :
                         StatedScore(arg.query, cs[j].title) < StatedScore(arg.query, cs[i].title)

\* query "a B", titles "a" (score 2) then "A b" (score 9): the second is picked
C25_Witness ==
    /\ arg.query = <<"a", " ", "B">>
    /\ arg.candidates = <<[cid |-> "UCc1", title |-> <<"a">>], [cid |-> "UCc2", title |-> <<"A", " ", "b">>]>>
    /\ Called("pick")
    /\ ResultOf("pick").best = <<[cid |-> "UCc2", title |-> <<"A", " ", "b">>]>>

\* C26 as stated: when no candidate's title overlaps the query, the target
\* stays unresolved: channel_id and url stay empty and nothing is written to
\* the resolution cache.
C26_NoMatchStaysUnresolved ==
    (/\ Called("resolve")
     /\ ~arg.cached
     /\ \A j \in DOMAIN arg.candidates : StatedScore(arg.query, arg.candidates[j].title) = 0)
        => LET out == ResultOf("resolve").out
           IN  /\ out.t.channel_id = ""
               /\ out.t.url = ""
               /\ out.resolved = <<>>
               /\ ~out.written

\* query "c", the only candidate "z": it is taken with score 0 and cached
C26_Witness ==
    /\ arg = [query |-> <<"c">>, candidates |-> <<[cid |-> "UCc1", title |-> <<"z">>]>>,
              search |-> "ok", cached |-> FALSE]
    /\ Called("resolve")
    /\ ResultOf("resolve").out.t.channel_id = "UCc1"
    /\ ResultOf("resolve").out.resolved[<<"c">>].title = <<"z">>
    /\ ResultOf("resolve").out.written

\* C27 as stated: with the explicit isLiveNow present the result is that
\* boolean; with it absent the result is start <= now < end (end may be
\* absent) when that holds, and else the presence of a streaming manifest.
C27_LivenessByPrecedence ==
    Len(ret) = 1 =>
        LET in_window == /\ arg.startTimestamp # NoTs
                         /\ arg.startTimestamp <= Now
                         /\ (arg.endTimestamp = NoTs \/ Now < arg.endTimestamp)
        IN  ret[1] = IF arg.isLiveNow # "absent" THEN arg.isLiveNow = "true"
                     ELSE IF in_window THEN TRUE
                     ELSE arg.hlsManifestUrl

\* isLiveNow is false and there is a manifest URL: the result is "live"
C27_Witness ==
    /\ arg.isLiveNow = "false"
    /\ arg.hlsManifestUrl
    /\ ret = <<TRUE>>

\* C28 as stated: every announcement posted carries a creator name that is
\* not empty, not a bare @handle, not a raw channel id and not a URL.
C28_NoPlaceholderName ==
    \A i \in DOMAIN ret :
        ret[i].op = "post" =>
            /\ ret[i].creator_name # ""
            /\ ~starts_at(ret[i].creator_name)
            /\ ~uc_like(ret[i].creator_name)
            /\ ~is_http(ret[i].creator_name)

\* a target added by its channel URL (no name, the URL as query), no name in
\* the player response and no lookup succeeds: posted under the URL
C28_Witness ==
    /\ arg = [name |-> "", query |-> U_x, handle |-> "", channel_id |-> "", url |-> U_x,
              player_name |-> "", lookup1 |-> "", lookup2 |-> "", cached_name |-> ""]
    /\ Len(ret) = 2
    /\ ret[2] = [op |-> "post", creator_name |-> U_x]

\* C29: a write of the state file that fails leaves the file as it was, the
\* handler ends as it does after a write that worked, and the ids recorded in
\* memory keep suppressing announcements; a write that works leaves in the
\* file the whole state in memory, the ids of failed writes included.
C29_FailedWriteReconciled ==
    /\ [][\A c \in loops :
            state'[c].announced_vids # state[c].announced_vids =>
                /\ pc'[c] = "results"
                /\ state[c].announced_vids \subseteq state'[c].announced_vids
                /\ IF fs_ok THEN disk' = state'[c] ELSE disk' = disk]_vars
    /\ [](\A c \in loops : \A v \in Vids : sent[c][v] <= 1)

\* v1 was recorded while the file could not be written, and the write for v2
\* put both into the file
C29_Witness ==
    /\ fs_ok
    /\ lost = {"v1"}
    /\ state[1].announced_vids = {"v1", "v2"}
    /\ disk = state[1]

\* the template with every placeholder replaced by its argument and every
\* other piece kept
Substituted(a) ==
    LET F[i \in 0..Len(a.template)] ==
            IF i = 0 THEN <<>>
            ELSE F[i - 1] \o (IF a.template[i] = P_name THEN a.creator_name
                              ELSE IF a.template[i] = P_title THEN a.video_title
                              ELSE IF a.template[i] = P_link THEN a.video_link
                              ELSE <<a.template[i]>>)
    IN  F[Len(a.template)]

\* C30 as stated: rendering replaces every occurrence of the three
\* placeholders of the template by the arguments and changes nothing else;
\* "hi {creator.name} {video.title} {video.link}" with Alice, T, L gives
\* "hi Alice T L".
C30_RenderSubstitutes ==
    Len(ret) = 1 =>
        /\ ret[1] = Substituted(arg)
        /\ (/\ arg.template = <<"hi", P_name, P_title, P_link>>
            /\ arg.creator_name = <<"Alice">>
            /\ arg.video_title = <<"T">>
            /\ arg.video_link = <<"L">>) => ret[1] = <<"hi", "Alice", "T", "L">>

\* the template "hi {creator.name}" and a channel named "{video.title}": the
\* text is "hi T", the name was replaced by the title
C30_Witness ==
    /\ arg = [template |-> <<"hi", P_name>>, creator_name |-> <<P_title>>,
              video_title |-> <<"T">>, video_link |-> <<"L">>]
    /\ ret = <<<<"hi", "T">>>>

\* C31 as stated: a video id enters announced_vids of a cog only in a step in
\* which it is suppressed or already known (the gate of the result), or when a
\* message for it was delivered by this cog or is in the channel history or
\* in the cog's history cache; a send dropped by the cooldown or by a full
\* queue records nothing.
C31_RecordedOnlyWhenDelivered ==
    [][\A c \in loops : \A v \in Vids :
          (v \in state'[c].announced_vids /\ v \notin state[c].announced_vids)
              => \/ pc[c] = "results"
                 \/ sent'[c][v] > 0
                 \/ v \in cache'[c]
                 \/ ScanHas(history', v)]_vars

\* C31: a video id is recorded although its send was dropped: no message for
\* it was ever delivered or is in the history, and the cooldown is active.
C31_Witness ==
    \E c \in loops : \E v \in Vids :
        /\ v \in state[c].announced_vids
        /\ sent[c][v] = 0
        /\ v \notin cache[c]
        /\ ~ScanHas(history, v)
        /\ CooldownActive(c)
        /\ \A r \in ReqIds : fut[r] # "pending"
        /\ pc[c] \in {"results", "idle"}
        /\ prev_sent = {}

\* C32 as stated: when the send for video V fails with an exception, the step
\* in which the loop handles the error leaves announced and announced_vids
\* (and the state file) unchanged, removes V from the in-flight set and goes
\* on with the next result of the pass; and from then on V is recorded as
\* announced only with a message for V delivered (a later pass that detects V
\* announces it).
C32_FailedSendRetried ==
    [][/\ \A c \in Loops : \A v \in Vids :
            (SendRaised(c, v) /\ pc'[c] # "send_wait")
                => /\ state'[c] = state[c]
                   /\ disk' = disk
                   /\ inflight' = inflight \ {v}
                   /\ pc'[c] = "results"
       /\ \A c \in loops : \A v \in Range(ret') :
            v \in state'[c].announced_vids => sent'[c][v] > 0]_vars

\* C32: the send for a video failed, and a later pass recorded the video as
\* announced with no message delivered for it and none in flight.
C32_Witness ==
    \E v \in Vids :
        /\ v \in Raised
        /\ v \in state[1].announced_vids
        /\ v \in Range(state[1].announced)
        /\ sent[1][v] = 0
        /\ history = <<>>
        /\ v \notin inflight
        /\ queue[1] = <<>>
        /\ wpc[1] = "get"

C34_DistinctChannelsKept ==
    (arg \in ChanLists /\ ret # <<>>) =>
        \A f \in {"channel_id", "handle"} :
            Cardinality(Carried(arg, f)) >= 2
                => Carried(arg, f) \subseteq Carried(ret[1], f)

\* C34: two targets with the same display name and different channel ids
\* come out as one entry, which carries the first channel id only.
C34_Witness ==
    /\ arg = <<[name |-> "A", query |-> "", handle |-> "", channel_id |-> UC1, url |-> ""],
               [name |-> "A", query |-> "", handle |-> "", channel_id |-> UC2, url |-> ""]>>
    /\ ret # <<>>
    /\ Len(ret[1]) = 1
    /\ ret[1][1].channel_id = UC1

\* C35: the cooldown deadline never moves to an earlier time: the time left
\* of a cog's cooldown goes down only with the clock; every send failure with
\* the rate-limit signature sets it to the maximum of what is left and the
\* cooldown, which is at least the minimum cooldown; no other step moves it.
C35_CooldownOnlyExtended ==
    [][\A c \in loops :
          LET cd == Max(MIN_COOLDOWN_SECONDS, DISCORD_CLOUDFLARE_COOLDOWN_SECONDS) IN
          /\ \/ cool_left'[c] = cool_left[c]
             \/ Tick /\ cool_left'[c] = cool_left[c] - 1
             \/ SendFail(c, TRUE)
          /\ SendFail(c, TRUE)
                => /\ cool_left'[c] = Max(cool_left[c], cd)
                   /\ cool_left'[c] >= MIN_COOLDOWN_SECONDS
                   /\ cool_left'[c] >= cool_left[c]]_vars

\* C35: a send has just failed with the rate-limit signature: its caller got
\* the error and the whole cooldown is ahead.
C35_Witness ==
    /\ cool_left[1] = Max(MIN_COOLDOWN_SECONDS, DISCORD_CLOUDFLARE_COOLDOWN_SECONDS)
    /\ since_done[1] = 0
    /\ wpc[1] = "get"
    /\ \E r \in ReqIds : fut[r] = "exc"

\* C36: the send queue of a cog never holds more requests than its capacity,
\* max(1, configured size); a request that arrives when the queue is full
\* gets 'no message' in the same step, is not put on the queue, and nothing
\* is sent for it.
C36_QueueBounded ==
    /\ [](\A c \in loops : Len(queue[c]) <= Max(1, DISCORD_ANNOUNCE_QUEUE_MAXSIZE))
    /\ [][\A r \in ReqIds :
            (/\ fut[r] = "none" /\ fut'[r] # "none"
             /\ Len(queue[1]) >= Max(1, DISCORD_ANNOUNCE_QUEUE_MAXSIZE))
                => /\ fut'[r] = "nomsg"
                   /\ queue' = queue
                   /\ sent' = sent /\ history' = history
                   /\ wpc' = wpc /\ witem' = witem]_vars

\* C36: with no cooldown and nothing sent yet, the queue is full and a
\* further request has got 'no message'.
C36_Witness ==
    /\ Len(queue[1]) = Max(1, DISCORD_ANNOUNCE_QUEUE_MAXSIZE)
    /\ ~CooldownActive(1)
    /\ since_done[1] = DISCORD_SEND_THROTTLE_SECONDS
    /\ history = <<>>
    /\ \E r \in ReqIds : fut[r] = "nomsg" /\ r \notin Held(1)
    /\ \A r \in ReqIds : fut[r] # "exc"

\* C37 as stated: after a reload every watchlist entry that satisfies the
\* Target invariant, an entry that has only a query included, is in the
\* working set, and every target of the working set satisfies the invariant.
C37_ReloadKeepsTargets ==
    (arg \in WatchArgs /\ ret # <<>>) =>
        /\ \A i \in DOMAIN arg.items :
              TargetInvariant(arg.items[i]) => InWorkingSet(arg.items[i], ret[1])
        /\ \A k \in DOMAIN ret[1] : TargetInvariant(ret[1][k])

\* C37: a watchlist whose one entry has only a search-text query is reloaded
\* into an empty working set.
C37_Witness ==
    /\ arg \in WatchArgs
    /\ arg.items = <<[name |-> "", query |-> Q_text, handle |-> "", channel_id |-> "", url |-> ""]>>
    /\ arg.resolved = <<>>
    /\ ret = << <<>> >>

\* C38: a pass that finds the announce enable flag not set launches no
\* detection (the loop stays idle, no result is handled), sends no message
\* and changes neither announced, announced_vids, the state file nor the
\* in-flight set.
C38_DisabledPassNoEffect ==
    [][\A c \in loops : \A chan \in BOOLEAN :
          LoopBegin(c, FALSE, chan)
              => /\ pc'[c] = "idle" /\ cur' = cur
                 /\ state' = state /\ disk' = disk
                 /\ inflight' = inflight
                 /\ queue' = queue /\ fut' = fut
                 /\ sent' = sent /\ history' = history]_vars

\* C38: the loop is idle between two passes with a video recorded and one
\* message delivered: the state a disabled pass finds and leaves.
C38_Witness ==
    /\ pc[1] = "idle"
    /\ cur[1] = NoResult
    /\ state[1].announced_vids = {"v1"}
    /\ disk = state[1]
    /\ sent[1]["v1"] = 1
    /\ inflight = {}
    /\ queue[1] = <<>>

\* C39 as stated: after any sequence of resolve and detection operations every
\* entry of the resolution cache is a record with the fields channel_id, title
\* and url, keyed by a query, a handle, a url or a channel id.
C39_CacheEntriesAreRecords ==
    arg = "empty" =>
        \A k \in DOMAIN Resolved : IsDict(Resolved[k]) /\ k \in IdKeys

\* C39: after a detection over the fallback path the cache holds the channel
\* name as a plain string under the handle and a dict of strings under
\* "url_to_name".
C39_Witness ==
    /\ arg = "empty"
    /\ ret # <<>>
    /\ "@x" \in DOMAIN Resolved
    /\ Resolved["@x"] = Str("A")
    /\ "url_to_name" \in DOMAIN Resolved
    /\ Resolved["url_to_name"] = Map([u \in {U_x} |-> "A"])

\* C17 as stated: the results of a pass are handled in the order of the
\* target list: no result is handled while that of an earlier target waits.
C17_HandledInTargetOrder ==
    \A i \in Tasks : \A j \in Tasks :
        (i < j /\ tgt[j].st = "handled") => tgt[i].st # "result"

\* the result of the second target was handled before that of the first
C17_Witness ==
    /\ ppc = "handle"
    /\ tgt = <<[kind |-> "returns", st |-> "result"], [kind |-> "returns", st |-> "handled"]>>

====
